---- MODULE Spec2Model ----
(***************************************************************************)
(* A state-machine model of pysim6502: the MOS 6502 CPU (cpu.py), the      *)
(* generic bus (bus.py), the Apple 1 bus (apple1_bus.py) and the pieces    *)
(* of the simulator prompt that drive them (sim.py).                       *)
(*                                                                         *)
(* One call of a method is one action.  A method's body is a chain of      *)
(* operators on a machine record m = [cpu, bus, tty, screen, err, val]:    *)
(* err carries a raised SimError out of the rest of the call (every        *)
(* primitive is the identity once err is set), val carries a return value. *)
(***************************************************************************)
EXTENDS Integers, Sequences, FiniteSets, TLC

VARIABLES
    cpu,      \* the CPU object: registers, flags, halted, breakpoints, last_break
    bus,      \* the SystemBus object: mem, interrupt, kbd, dsp, stdscr, ...
    tty,      \* the host terminal's input buffer (what getch() will return)
    screen,   \* the characters sent to the host terminal by addstr()
    term,     \* TRUE while a curses wrapper() session is open
    last      \* the most recent cpu call and how it ended

vars == <<cpu, bus, tty, screen, term, last>>

----------------------------------------------------------------------------
(* Integers as Python uses them *)

Byte == 0..255
Word == 0..65535
None == -1              \* Python's None, where the code uses it for an int
ERR == -1               \* curses.ERR
NoErr == "none"         \* no exception is propagating

Bit(x, k) == (x \div (2 ^ k)) % 2

RECURSIVE BitOr(_, _)
BitOr(x, y) ==
    IF x = 0 THEN y
    ELSE IF y = 0 THEN x
    ELSE (IF x % 2 = 1 \/ y % 2 = 1 THEN 1 ELSE 0) + 2 * BitOr(x \div 2, y \div 2)

RECURSIVE BitAnd(_, _)
BitAnd(x, y) ==
    IF x = 0 \/ y = 0 THEN 0
    ELSE (IF x % 2 = 1 /\ y % 2 = 1 THEN 1 ELSE 0) + 2 * BitAnd(x \div 2, y \div 2)

RECURSIVE BitXor(_, _)
BitXor(x, y) ==
    IF x = 0 THEN y
    ELSE IF y = 0 THEN x
    ELSE (IF x % 2 # y % 2 THEN 1 ELSE 0) + 2 * BitXor(x \div 2, y \div 2)

----------------------------------------------------------------------------
(* bus.py: class Bus *)

mem_size == 65536

\* The 64K list self.mem, held sparsely: a cell outside DOMAIN mem holds 0.
Peek(mem, address) == IF address \in DOMAIN mem THEN mem[address] ELSE 0

Poke(mem, address, value) ==
    IF value = 0
    THEN [x \in (DOMAIN mem) \ {address} |-> mem[x]]
    ELSE [x \in (DOMAIN mem) \cup {address} |-> IF x = address THEN value ELSE mem[x]]

\* SystemBus.__init__: only the first half of the address space is RAM
is_writeable(address) == ~(address \in 32768..65535)

\* SystemBus.__init__: the first part of the last half is unused
is_readable(address) == ~(address \in 32768..57343)

Raise(m, e) == IF m.err = NoErr THEN [m EXCEPT !.err = e] ELSE m

Return(m, value) == IF m.err = NoErr THEN [m EXCEPT !.val = value] ELSE m

Bus_read(m, address0) ==
    LET address == address0 % 65536 IN
    IF m.err # NoErr THEN m
    ELSE IF is_readable(address) THEN Return(m, Peek(m.bus.mem, address))
    ELSE IF m.bus.throw_memory_errors THEN Raise(m, "read")
    ELSE Return(m, 0)

\* a write that does not look at the permission of the cell
Bus_write_unchecked(m, address0, value0) ==
    LET address == address0 % 65536
        value == value0 % 256
    IN  IF m.err # NoErr THEN m
        ELSE [m EXCEPT !.bus.mem = Poke(m.bus.mem, address, value)]

Bus_write(m, address0, value0) ==
    LET address == address0 % 65536
        value == value0 % 256
    IN  IF m.err # NoErr THEN m
        ELSE IF is_writeable(address)
             THEN [m EXCEPT !.bus.mem = Poke(m.bus.mem, address, value)]
        ELSE IF m.bus.throw_memory_errors THEN Raise(m, "write")
        ELSE m

----------------------------------------------------------------------------
(* apple1_bus.py: class SystemBus *)

KBD == 53264        \* $D010
KBDCR == 53265      \* $D011
DSP == 53266        \* $D012
DSPCR == 53267      \* $D013

\* stdscr.getch() in nodelay mode: the next key of the input buffer, or ERR
getch(m) ==
    IF m.tty = <<>> THEN Return(m, ERR)
    ELSE [m EXCEPT !.tty = Tail(m.tty), !.val = Head(m.tty)]

\* a key translation that passes delete through
translate_keeps_delete(k) ==
    LET k1 == IF 97 <= k /\ k <= 122 THEN k - 32 ELSE k
    IN  IF k1 = 10 THEN 13 ELSE k1

\* the key translation of a $D011 read, lines 65-73
translate(k) ==
    LET k1 == IF 97 <= k /\ k <= 122 THEN k - 32 ELSE k
        k2 == IF k1 = 10 THEN 13 ELSE k1
        k3 == IF k2 = 127 THEN 95 ELSE k2
    IN  k3

\* a $D011 read that takes a control key for no key at all
read_kbdcr_drops_control(m) ==
    LET p == IF m.bus.stdscr THEN getch(m) ELSE Return(m, ERR)
        k == p.val
    IN  IF k = ERR THEN Return(p, 0)
        ELSE IF k = 18 THEN Return([p EXCEPT !.bus.interrupt = "RES"], 0)
        ELSE IF k = 5 THEN Return([p EXCEPT !.bus.interrupt = "HLT"], 0)
        ELSE Return([p EXCEPT !.bus.kbd = BitOr(translate(k), 128)], 128)

read_kbdcr(m) ==
    LET p == IF m.bus.stdscr THEN getch(m) ELSE Return(m, ERR)
        k == p.val
        q == IF k = 18 THEN [p EXCEPT !.bus.interrupt = "RES"]
             ELSE IF k = 5 THEN [p EXCEPT !.bus.interrupt = "HLT"]
             ELSE p
    IN  IF k = ERR THEN Return(p, 0)
        ELSE Return([q EXCEPT !.bus.kbd = BitOr(translate(k), 128)], 128)

\* a read that leaves the keyboard latch as it was
read_keeps_latch(m, address0) ==
    LET address == address0 % 65536 IN
    IF m.err # NoErr THEN m
    ELSE IF address = KBD THEN Return(m, m.bus.kbd)
    ELSE IF address = KBDCR THEN read_kbdcr(m)
    ELSE IF address = DSP THEN Return(m, 0)
    ELSE Bus_read(m, address)

read(m, address0) ==
    LET address == address0 % 65536 IN
    IF m.err # NoErr THEN m
    ELSE IF address = KBD THEN Return([m EXCEPT !.bus.kbd = 0], m.bus.kbd)
    ELSE IF address = KBDCR THEN read_kbdcr(m)
    ELSE IF address = DSP THEN Return(m, 0)
    ELSE Bus_read(m, address)

\* a display handler that does not fold the lowercase range
write_dsp_no_fold(m, value) ==
    LET v2 == value % 128
        v3 == IF v2 = 13 THEN 10 ELSE v2
        m1 == [m EXCEPT !.bus.dsp = value]
    IN  IF ((32 <= v2 /\ v2 <= 95) \/ v2 = 13) /\ m.bus.stdscr
        THEN [m1 EXCEPT !.screen = Append(m.screen, v3)]
        ELSE m1

\* the display register's handler, lines 90-111
write_dsp(m, value) ==
    LET v1 == value % 128
        v2 == IF v1 > 95 THEN v1 - 32 ELSE v1
        v3 == IF v2 = 13 THEN 10 ELSE v2
        m1 == [m EXCEPT !.bus.dsp = value]
    IN  IF ((32 <= v2 /\ v2 <= 95) \/ v2 = 13) /\ m.bus.stdscr
        THEN [m1 EXCEPT !.screen = Append(m.screen, v3)]
        ELSE m1

write(m, address0, value0) ==
    LET address == address0 % 65536
        value == value0 % 256
    IN  IF m.err # NoErr THEN m
        ELSE IF address = DSP THEN write_dsp(m, value)
        ELSE IF address \in {KBDCR, DSPCR} THEN m
        ELSE Bus_write(m, address, value)

----------------------------------------------------------------------------
(* cpu.py: class CPU *)

stack_location == 256       \* $0100
reset_vector == 65532       \* $FFFC
nmi_brk_vector == 65534     \* $FFFE

\* run m2 (computed from m) only when no exception is propagating in m
OnOk(m, m2) == IF m.err = NoErr THEN m2 ELSE m

initialize_registers ==
    [a |-> 0, x |-> 0, y |-> 0, pc |-> 0, s |-> 255,
     c |-> 0, z |-> 0, i |-> 0, d |-> 0, b |-> 0, v |-> 0, n |-> 0]

get_status_register(m) ==
    (IF m.cpu.n # 0 THEN 128 ELSE 0) + (IF m.cpu.v # 0 THEN 64 ELSE 0)
    + (IF m.cpu.b # 0 THEN 16 ELSE 0) + (IF m.cpu.d # 0 THEN 8 ELSE 0)
    + (IF m.cpu.i # 0 THEN 4 ELSE 0) + (IF m.cpu.z # 0 THEN 2 ELSE 0)
    + (IF m.cpu.c # 0 THEN 1 ELSE 0)

set_status_register(m, sr) ==
    OnOk(m, [m EXCEPT !.cpu.n = Bit(sr, 7), !.cpu.v = Bit(sr, 6),
                      !.cpu.b = Bit(sr, 4), !.cpu.d = Bit(sr, 3),
                      !.cpu.i = Bit(sr, 2), !.cpu.z = Bit(sr, 1),
                      !.cpu.c = Bit(sr, 0)])

sei(m) == OnOk(m, [m EXCEPT !.cpu.i = 1])

\* a reset that loads PC and forgets the interrupt-disable flag
sei_and_set_pc_no_sei(m, vector) ==
    LET m2 == read(m, vector)
        m3 == read(m2, (vector + 1) % 65536)
    IN  OnOk(m3, [m3 EXCEPT !.cpu.pc = m2.val + m3.val * 256])

sei_and_set_pc(m, vector) ==
    LET m1 == sei(m)
        m2 == read(m1, vector)
        m3 == read(m2, (vector + 1) % 65536)
    IN  OnOk(m3, [m3 EXCEPT !.cpu.pc = m2.val + m3.val * 256])

reset(m) == sei_and_set_pc(m, reset_vector)

inc_pc(m) == OnOk(m, [m EXCEPT !.cpu.pc = (m.cpu.pc + 1) % 65536])

set_nz(m, result) ==
    OnOk(m, [m EXCEPT !.cpu.z = IF result = 0 THEN 1 ELSE 0,
                      !.cpu.n = IF result >= 128 THEN 1 ELSE 0])

\* a pull that reads the cell S points at and increments afterwards
pull_post_increment(m) ==
    LET m1 == read(m, stack_location + m.cpu.s)
    IN  OnOk(m1, [m1 EXCEPT !.cpu.s = (m1.cpu.s + 1) % 256])

pull(m) ==
    LET m1 == OnOk(m, [m EXCEPT !.cpu.s = (m.cpu.s + 1) % 256])
    IN  read(m1, stack_location + m1.cpu.s)

push(m, value) ==
    LET m1 == write(m, stack_location + m.cpu.s, value)
    IN  OnOk(m1, [m1 EXCEPT !.cpu.s = (m1.cpu.s - 1) % 256])

\* a PHP that pushes the status byte as get_status_register returns it
php_plain(m) == push(m, get_status_register(m))

php(m) == push(m, BitOr(get_status_register(m), 48))

interrupt(m, vector, set_break_flag) ==
    LET m1 == push(m, m.cpu.pc \div 256)
        m2 == push(m1, m1.cpu.pc % 256)
        m3 == IF set_break_flag THEN php(m2)
              ELSE push(m2, BitAnd(get_status_register(m2), 207))
    IN  sei_and_set_pc(m3, vector)

(* Address-resolving methods: each returns the operand's address in val *)

absolute(m) ==
    LET m1 == read(m, m.cpu.pc)
        m2 == inc_pc(m1)
        m3 == read(m2, m2.cpu.pc)
        m4 == inc_pc(m3)
    IN  Return(m4, m1.val + m3.val * 256)

absolute_x(m) ==
    LET m1 == absolute(m) IN Return(m1, (m1.val + m1.cpu.x) % 65536)

absolute_y(m) ==
    LET m1 == absolute(m) IN Return(m1, (m1.val + m1.cpu.y) % 65536)

accumulator(m) == Return(m, None)

immediate(m) == Return(inc_pc(m), m.cpu.pc)

\* an indirect mode that takes the high byte from the next page
indirect_no_wrap(m) ==
    LET m1 == read(m, m.cpu.pc)
        m2 == inc_pc(m1)
        m3 == read(m2, m2.cpu.pc)
        m4 == inc_pc(m3)
        address_location == m1.val + m3.val * 256
        m5 == read(m4, address_location)
        m6 == read(m5, address_location + 1)
    IN  Return(m6, m6.val * 256 + m5.val)

indirect(m) ==
    LET m1 == read(m, m.cpu.pc)
        m2 == inc_pc(m1)
        m3 == read(m2, m2.cpu.pc)
        m4 == inc_pc(m3)
        address_location == m1.val + m3.val * 256
        m5 == read(m4, address_location)
        second == IF address_location % 256 = 255
                  THEN address_location - 255
                  ELSE address_location + 1
        m6 == read(m5, second)
    IN  Return(m6, m6.val * 256 + m5.val)

zero_page(m) ==
    LET m1 == read(m, m.cpu.pc) IN Return(inc_pc(m1), m1.val)

\* a zero-page,X mode that carries into page one
zero_page_x_carries(m) ==
    LET m1 == read(m, m.cpu.pc) IN Return(inc_pc(m1), m1.val + m1.cpu.x)

zero_page_x(m) ==
    LET m1 == read(m, m.cpu.pc) IN Return(inc_pc(m1), (m1.val + m1.cpu.x) % 256)

zero_page_y(m) ==
    LET m1 == read(m, m.cpu.pc) IN Return(inc_pc(m1), (m1.val + m1.cpu.y) % 256)

indirect_x(m) ==
    LET m1 == zero_page_x(m)
        address_location == m1.val
        m2 == read(m1, (address_location + 1) % 256)
        m3 == read(m2, address_location)
    IN  Return(m3, m2.val * 256 + m3.val)

indirect_y(m) ==
    LET m1 == zero_page(m)
        address_location == m1.val
        m2 == read(m1, (address_location + 1) % 256)
        m3 == read(m2, address_location)
    IN  Return(m3, (m2.val * 256 + m3.val + m3.cpu.y) % 65536)

(* Utility functions for the operator methods *)

\* a conversion that hands the binary value back as it is
bin2bcd_binary(n) == n % 256

bin2bcd(n) == ((n \div 10) * 16 + (n % 10)) % 256

bcd2bin(n) == (n \div 16) * 10 + (n % 16)

\* a branch that adds the displacement byte without extending its sign
branch_unsigned(m, take_branch) ==
    LET m1 == read(m, m.cpu.pc)
        m2 == inc_pc(m1)
    IN  IF take_branch
        THEN OnOk(m2, [m2 EXCEPT !.cpu.pc = (m2.cpu.pc + m1.val) % 65536])
        ELSE m2

branch(m, take_branch) ==
    LET m1 == read(m, m.cpu.pc)
        m2 == inc_pc(m1)
        displacement == IF m1.val >= 128 THEN -(256 - m1.val) ELSE m1.val
    IN  IF take_branch
        THEN OnOk(m2, [m2 EXCEPT !.cpu.pc = (m2.cpu.pc + displacement) % 65536])
        ELSE m2

\* a compare that sets carry only when the register is strictly greater
compare_strict(m, reg_value, n) ==
    LET result == reg_value - n
        m1 == OnOk(m, [m EXCEPT !.cpu.c = IF result > 0 THEN 1 ELSE 0])
    IN  set_nz(m1, result % 256)

compare(m, reg_value, n) ==
    LET result == reg_value - n
        m1 == OnOk(m, [m EXCEPT !.cpu.c = IF result >= 0 THEN 1 ELSE 0])
    IN  set_nz(m1, result % 256)

\* shift_left and shift_right return the new value in val
shift_left(m, value, carry_fill) ==
    LET saved_carry == m.cpu.c
        m1 == OnOk(m, [m EXCEPT !.cpu.c = IF value >= 128 THEN 1 ELSE 0])
        value1 == (value * 2) % 256
        value2 == IF carry_fill /\ saved_carry # 0 THEN value1 + 1 ELSE value1
    IN  Return(set_nz(m1, value2), value2)

\* a right shift that always fills bit 7 with zero
shift_right_zero_fill(m, value, carry_fill) ==
    LET m1 == OnOk(m, [m EXCEPT !.cpu.c = value % 2])
        value1 == (value \div 2) % 256
    IN  Return(set_nz(m1, value1), value1)

shift_right(m, value, carry_fill) ==
    LET saved_carry == m.cpu.c
        m1 == OnOk(m, [m EXCEPT !.cpu.c = value % 2])
        value1 == (value \div 2) % 256
        value2 == IF carry_fill /\ saved_carry # 0 THEN value1 + 128 ELSE value1
    IN  Return(set_nz(m1, value2), value2)

(* Operator methods: each takes the address its resolver returned *)

\* a shift or rotate's operand: A when the address is None, else the cell
operand(m, address) ==
    IF address = None THEN Return(m, m.cpu.a) ELSE read(m, address)

\* a shift or rotate's result goes back to A or to the cell
store_back(m, address, value) ==
    IF address = None THEN OnOk(m, [m EXCEPT !.cpu.a = value])
    ELSE write(m, address, value)

\* an ADC that leaves the carry flag out of the sum
adc_drops_carry_in(m, address) ==
    LET m1 == read(m, address)
        value == m1.val
        a == m1.cpu.a
        sum == IF m1.cpu.d # 0 THEN bcd2bin(a) + bcd2bin(value) ELSE a + value
        carry == IF m1.cpu.d # 0
                 THEN (IF sum >= 100 THEN 1 ELSE 0)
                 ELSE (IF sum > 255 THEN 1 ELSE 0)
        result == IF m1.cpu.d # 0
                  THEN (IF sum >= 100 THEN sum - 100 ELSE sum)
                  ELSE sum % 256
        overflow == IF Bit(a, 7) # Bit(result, 7) /\ Bit(value, 7) # Bit(result, 7)
                    THEN 1 ELSE 0
        m2 == OnOk(m1, [m1 EXCEPT !.cpu.c = carry, !.cpu.v = overflow])
        m3 == set_nz(m2, result)
    IN  OnOk(m3, [m3 EXCEPT !.cpu.a = IF m3.cpu.d # 0 THEN bin2bcd(result) ELSE result])

adc(m, address) ==
    LET m1 == read(m, address)
        value == m1.val
        a == m1.cpu.a
        sum == IF m1.cpu.d # 0
               THEN bcd2bin(a) + bcd2bin(value) + m1.cpu.c
               ELSE a + value + m1.cpu.c
        carry == IF m1.cpu.d # 0
                 THEN (IF sum >= 100 THEN 1 ELSE 0)
                 ELSE (IF sum > 255 THEN 1 ELSE 0)
        result == IF m1.cpu.d # 0
                  THEN (IF sum >= 100 THEN sum - 100 ELSE sum)
                  ELSE sum % 256
        overflow == IF Bit(a, 7) # Bit(result, 7) /\ Bit(value, 7) # Bit(result, 7)
                    THEN 1 ELSE 0
        m2 == OnOk(m1, [m1 EXCEPT !.cpu.c = carry, !.cpu.v = overflow])
        m3 == set_nz(m2, result)
    IN  OnOk(m3, [m3 EXCEPT !.cpu.a = IF m3.cpu.d # 0 THEN bin2bcd(result) ELSE result])

aNd(m, address) ==
    LET m1 == read(m, address)
        m2 == OnOk(m1, [m1 EXCEPT !.cpu.a = BitAnd(m1.cpu.a, m1.val) % 256])
    IN  set_nz(m2, m2.cpu.a)

asl(m, address) ==
    LET m1 == operand(m, address)
        m2 == OnOk(m1, shift_left(m1, m1.val, FALSE))
    IN  store_back(m2, address, m2.val)

bcc(m) == branch(m, m.cpu.c = 0)

bcs(m) == branch(m, m.cpu.c # 0)

beq(m) == branch(m, m.cpu.z # 0)

bit(m, address) ==
    LET m1 == read(m, address)
        value == m1.val
    IN  OnOk(m1, [m1 EXCEPT !.cpu.z = IF BitAnd(value, m1.cpu.a) = 0 THEN 1 ELSE 0,
                            !.cpu.n = IF value >= 128 THEN 1 ELSE 0,
                            !.cpu.v = Bit(value, 6)])

bmi(m) == branch(m, m.cpu.n # 0)

\* a BNE that branches when Z is set
bne_on_zero(m) == branch(m, m.cpu.z = 1)

bne(m) == branch(m, m.cpu.z = 0)

bpl(m) == branch(m, m.cpu.n = 0)

\* a BRK that does not skip the byte after the opcode
brk_no_skip(m) == interrupt(m, nmi_brk_vector, TRUE)

brk(m) == interrupt(inc_pc(m), nmi_brk_vector, TRUE)

bvc(m) == branch(m, m.cpu.v = 0)

bvs(m) == branch(m, m.cpu.v # 0)

clc(m) == OnOk(m, [m EXCEPT !.cpu.c = 0])

cld(m) == OnOk(m, [m EXCEPT !.cpu.d = 0])

cli(m) == OnOk(m, [m EXCEPT !.cpu.i = 0])

clv(m) == OnOk(m, [m EXCEPT !.cpu.v = 0])

cmp(m, address) == LET m1 == read(m, address) IN compare(m1, m1.cpu.a, m1.val)

cpx(m, address) == LET m1 == read(m, address) IN compare(m1, m1.cpu.x, m1.val)

cpy(m, address) == LET m1 == read(m, address) IN compare(m1, m1.cpu.y, m1.val)

dec(m, address) ==
    LET m1 == read(m, address)
        value == (m1.val - 1) % 256
    IN  set_nz(write(m1, address, value), value)

dex(m) ==
    LET m1 == OnOk(m, [m EXCEPT !.cpu.x = (m.cpu.x - 1) % 256]) IN set_nz(m1, m1.cpu.x)

dey(m) ==
    LET m1 == OnOk(m, [m EXCEPT !.cpu.y = (m.cpu.y - 1) % 256]) IN set_nz(m1, m1.cpu.y)

eor(m, address) ==
    LET m1 == read(m, address)
        m2 == OnOk(m1, [m1 EXCEPT !.cpu.a = BitXor(m1.cpu.a, m1.val) % 256])
    IN  set_nz(m2, m2.cpu.a)

inc(m, address) ==
    LET m1 == read(m, address)
        value == (m1.val + 1) % 256
    IN  set_nz(write(m1, address, value), value)

inx(m) ==
    LET m1 == OnOk(m, [m EXCEPT !.cpu.x = (m.cpu.x + 1) % 256]) IN set_nz(m1, m1.cpu.x)

iny(m) ==
    LET m1 == OnOk(m, [m EXCEPT !.cpu.y = (m.cpu.y + 1) % 256]) IN set_nz(m1, m1.cpu.y)

jmp(m, address) == OnOk(m, [m EXCEPT !.cpu.pc = address])

\* a JSR that pushes the address of the next instruction itself
jsr_pushes_next(m, address) ==
    LET return_address == m.cpu.pc
        m1 == push(m, return_address \div 256)
        m2 == push(m1, return_address % 256)
    IN  OnOk(m2, [m2 EXCEPT !.cpu.pc = address])

jsr(m, address) ==
    LET return_address == (m.cpu.pc - 1) % 65536
        m1 == push(m, return_address \div 256)
        m2 == push(m1, return_address % 256)
    IN  OnOk(m2, [m2 EXCEPT !.cpu.pc = address])

lda(m, address) ==
    LET m1 == read(m, address)
        m2 == OnOk(m1, [m1 EXCEPT !.cpu.a = m1.val])
    IN  set_nz(m2, m2.cpu.a)

ldx(m, address) ==
    LET m1 == read(m, address)
        m2 == OnOk(m1, [m1 EXCEPT !.cpu.x = m1.val])
    IN  set_nz(m2, m2.cpu.x)

ldy(m, address) ==
    LET m1 == read(m, address)
        m2 == OnOk(m1, [m1 EXCEPT !.cpu.y = m1.val])
    IN  set_nz(m2, m2.cpu.y)

lsr(m, address) ==
    LET m1 == operand(m, address)
        m2 == OnOk(m1, shift_right(m1, m1.val, FALSE))
    IN  store_back(m2, address, m2.val)

nop(m) == m

ora(m, address) ==
    LET m1 == read(m, address)
        m2 == OnOk(m1, [m1 EXCEPT !.cpu.a = BitOr(m1.cpu.a, m1.val) % 256])
    IN  set_nz(m2, m2.cpu.a)

pha(m) == push(m, m.cpu.a)

pla(m) ==
    LET m1 == pull(m)
        m2 == OnOk(m1, [m1 EXCEPT !.cpu.a = m1.val])
    IN  set_nz(m2, m2.cpu.a)

plp(m) == LET m1 == pull(m) IN set_status_register(m1, m1.val)

rol(m, address) ==
    LET m1 == operand(m, address)
        m2 == OnOk(m1, shift_left(m1, m1.val, TRUE))
    IN  store_back(m2, address, m2.val)

ror(m, address) ==
    LET m1 == operand(m, address)
        m2 == OnOk(m1, shift_right(m1, m1.val, TRUE))
    IN  store_back(m2, address, m2.val)

rti(m) ==
    LET m1 == plp(m)
        m2 == pull(m1)
        m3 == pull(m2)
    IN  OnOk(m3, [m3 EXCEPT !.cpu.pc = m3.val * 256 + m2.val])

rts(m) ==
    LET m1 == pull(m)
        m2 == pull(m1)
    IN  inc_pc(OnOk(m2, [m2 EXCEPT !.cpu.pc = m2.val * 256 + m1.val]))

\* an SBC that reports a borrow when the difference is zero
sbc_borrows_at_zero(m, address) ==
    LET m1 == read(m, address)
        value == m1.val
        a == m1.cpu.a
        diff == IF m1.cpu.d # 0
                THEN bcd2bin(a) - bcd2bin(value) + m1.cpu.c - 1
                ELSE a - value + m1.cpu.c - 1
        overflow == IF Bit(a, 7) # Bit(diff, 7) /\ Bit(value, 7) = Bit(diff, 7)
                    THEN 1 ELSE 0
        carry == IF diff <= 0 THEN 0 ELSE 1
        result == IF m1.cpu.d # 0
                  THEN (IF diff < 0 THEN diff + 100 ELSE diff)
                  ELSE diff % 256
        m2 == OnOk(m1, [m1 EXCEPT !.cpu.c = carry, !.cpu.v = overflow])
        m3 == set_nz(m2, result)
    IN  OnOk(m3, [m3 EXCEPT !.cpu.a = IF m3.cpu.d # 0 THEN bin2bcd(result) ELSE result])

sbc(m, address) ==
    LET m1 == read(m, address)
        value == m1.val
        a == m1.cpu.a
        diff == IF m1.cpu.d # 0
                THEN bcd2bin(a) - bcd2bin(value) + m1.cpu.c - 1
                ELSE a - value + m1.cpu.c - 1
        overflow == IF Bit(a, 7) # Bit(diff, 7) /\ Bit(value, 7) = Bit(diff, 7)
                    THEN 1 ELSE 0
        carry == IF diff < 0 THEN 0 ELSE 1
        result == IF m1.cpu.d # 0
                  THEN (IF diff < 0 THEN diff + 100 ELSE diff)
                  ELSE diff % 256
        m2 == OnOk(m1, [m1 EXCEPT !.cpu.c = carry, !.cpu.v = overflow])
        m3 == set_nz(m2, result)
    IN  OnOk(m3, [m3 EXCEPT !.cpu.a = IF m3.cpu.d # 0 THEN bin2bcd(result) ELSE result])

sec(m) == OnOk(m, [m EXCEPT !.cpu.c = 1])

sed(m) == OnOk(m, [m EXCEPT !.cpu.d = 1])

sta(m, address) == write(m, address, m.cpu.a)

stx(m, address) == write(m, address, m.cpu.x)

sty(m, address) == write(m, address, m.cpu.y)

tax(m) == LET m1 == OnOk(m, [m EXCEPT !.cpu.x = m.cpu.a]) IN set_nz(m1, m1.cpu.x)

tay(m) == LET m1 == OnOk(m, [m EXCEPT !.cpu.y = m.cpu.a]) IN set_nz(m1, m1.cpu.y)

tsx(m) == LET m1 == OnOk(m, [m EXCEPT !.cpu.x = m.cpu.s]) IN set_nz(m1, m1.cpu.x)

txa(m) == LET m1 == OnOk(m, [m EXCEPT !.cpu.a = m.cpu.x]) IN set_nz(m1, m1.cpu.a)

txs(m) == OnOk(m, [m EXCEPT !.cpu.s = m.cpu.x])

tya(m) == LET m1 == OnOk(m, [m EXCEPT !.cpu.a = m.cpu.y]) IN set_nz(m1, m1.cpu.a)

\* The opcodes dictionary: opcode byte |-> <<operator, address resolver>>
\* ("implicit" where the entry is a bare operator)
opcodes ==
    0 :> <<"brk", "implicit">> @@ 1 :> <<"ora", "indirect_x">> @@ 5 :> <<"ora", "zero_page">> @@
    6 :> <<"asl", "zero_page">> @@ 8 :> <<"php", "implicit">> @@ 9 :> <<"ora", "immediate">> @@
    10 :> <<"asl", "accumulator">> @@ 13 :> <<"ora", "absolute">> @@ 14 :> <<"asl", "absolute">> @@
    16 :> <<"bpl", "implicit">> @@ 17 :> <<"ora", "indirect_y">> @@ 21 :> <<"ora", "zero_page_x">> @@
    22 :> <<"asl", "zero_page_x">> @@ 24 :> <<"clc", "implicit">> @@ 25 :> <<"ora", "absolute_y">> @@
    29 :> <<"ora", "absolute_x">> @@ 30 :> <<"asl", "absolute_x">> @@ 32 :> <<"jsr", "absolute">> @@
    33 :> <<"aNd", "indirect">> @@ 36 :> <<"bit", "zero_page">> @@ 37 :> <<"aNd", "zero_page">> @@
    38 :> <<"rol", "zero_page">> @@ 40 :> <<"plp", "implicit">> @@ 41 :> <<"aNd", "immediate">> @@
    42 :> <<"rol", "accumulator">> @@ 44 :> <<"bit", "absolute">> @@ 45 :> <<"aNd", "absolute">> @@
    46 :> <<"rol", "absolute">> @@ 48 :> <<"bmi", "implicit">> @@ 49 :> <<"aNd", "indirect_y">> @@
    53 :> <<"aNd", "zero_page_x">> @@ 54 :> <<"rol", "zero_page_x">> @@ 56 :> <<"sec", "implicit">> @@
    57 :> <<"aNd", "absolute_y">> @@ 61 :> <<"aNd", "absolute_x">> @@ 62 :> <<"rol", "absolute_x">> @@
    64 :> <<"rti", "implicit">> @@ 65 :> <<"eor", "indirect_x">> @@ 69 :> <<"eor", "zero_page">> @@
    70 :> <<"lsr", "zero_page">> @@ 72 :> <<"pha", "implicit">> @@ 73 :> <<"eor", "immediate">> @@
    74 :> <<"lsr", "accumulator">> @@ 76 :> <<"jmp", "absolute">> @@ 77 :> <<"eor", "absolute">> @@
    78 :> <<"lsr", "absolute">> @@ 80 :> <<"bvc", "implicit">> @@ 81 :> <<"eor", "indirect_y">> @@
    85 :> <<"eor", "zero_page_x">> @@ 86 :> <<"lsr", "zero_page_x">> @@ 88 :> <<"cli", "implicit">> @@
    89 :> <<"eor", "absolute_y">> @@ 93 :> <<"eor", "absolute_x">> @@ 94 :> <<"lsr", "absolute_x">> @@
    96 :> <<"rts", "implicit">> @@ 97 :> <<"adc", "indirect_x">> @@ 101 :> <<"adc", "zero_page">> @@
    102 :> <<"ror", "zero_page">> @@ 104 :> <<"pla", "implicit">> @@ 105 :> <<"adc", "immediate">> @@
    106 :> <<"ror", "accumulator">> @@ 108 :> <<"jmp", "indirect">> @@ 109 :> <<"adc", "absolute">> @@
    110 :> <<"ror", "absolute">> @@ 112 :> <<"bvs", "implicit">> @@ 113 :> <<"adc", "indirect_y">> @@
    117 :> <<"adc", "zero_page_x">> @@ 118 :> <<"ror", "zero_page_x">> @@ 120 :> <<"sei", "implicit">> @@
    121 :> <<"adc", "absolute_y">> @@ 125 :> <<"adc", "absolute_x">> @@ 126 :> <<"ror", "absolute_x">> @@
    129 :> <<"sta", "indirect_x">> @@ 132 :> <<"sty", "zero_page">> @@ 133 :> <<"sta", "zero_page">> @@
    134 :> <<"stx", "zero_page">> @@ 136 :> <<"dey", "implicit">> @@ 138 :> <<"txa", "implicit">> @@
    140 :> <<"sty", "absolute">> @@ 141 :> <<"sta", "absolute">> @@ 142 :> <<"stx", "absolute">> @@
    144 :> <<"bcc", "implicit">> @@ 145 :> <<"sta", "indirect_y">> @@ 148 :> <<"sty", "zero_page_x">> @@
    149 :> <<"sta", "zero_page_x">> @@ 150 :> <<"stx", "zero_page_y">> @@ 152 :> <<"tya", "implicit">> @@
    153 :> <<"sta", "absolute_y">> @@ 154 :> <<"txs", "implicit">> @@ 157 :> <<"sta", "absolute_x">> @@
    160 :> <<"ldy", "immediate">> @@ 161 :> <<"lda", "indirect_x">> @@ 162 :> <<"ldx", "immediate">> @@
    164 :> <<"ldy", "zero_page">> @@ 165 :> <<"lda", "zero_page">> @@ 166 :> <<"ldx", "zero_page">> @@
    168 :> <<"tay", "implicit">> @@ 169 :> <<"lda", "immediate">> @@ 170 :> <<"tax", "implicit">> @@
    172 :> <<"ldy", "absolute">> @@ 173 :> <<"lda", "absolute">> @@ 174 :> <<"ldx", "absolute">> @@
    176 :> <<"bcs", "implicit">> @@ 177 :> <<"lda", "indirect_y">> @@ 180 :> <<"ldy", "zero_page_x">> @@
    181 :> <<"lda", "zero_page_x">> @@ 182 :> <<"ldx", "zero_page_y">> @@ 184 :> <<"clv", "implicit">> @@
    185 :> <<"lda", "absolute_y">> @@ 186 :> <<"tsx", "implicit">> @@ 188 :> <<"ldy", "absolute_x">> @@
    189 :> <<"lda", "absolute_x">> @@ 190 :> <<"ldx", "absolute_y">> @@ 192 :> <<"cpy", "immediate">> @@
    193 :> <<"cmp", "indirect_x">> @@ 196 :> <<"cpy", "zero_page">> @@ 197 :> <<"cmp", "zero_page">> @@
    198 :> <<"dec", "zero_page">> @@ 200 :> <<"iny", "implicit">> @@ 201 :> <<"cmp", "immediate">> @@
    202 :> <<"dex", "implicit">> @@ 204 :> <<"cpy", "absolute">> @@ 205 :> <<"cmp", "absolute">> @@
    206 :> <<"dec", "absolute">> @@ 208 :> <<"bne", "implicit">> @@ 209 :> <<"cmp", "indirect_y">> @@
    213 :> <<"cmp", "zero_page_x">> @@ 214 :> <<"dec", "zero_page_x">> @@ 216 :> <<"cld", "implicit">> @@
    217 :> <<"cmp", "absolute_y">> @@ 221 :> <<"cmp", "absolute_x">> @@ 222 :> <<"dec", "absolute_x">> @@
    224 :> <<"cpx", "immediate">> @@ 225 :> <<"sbc", "indirect_x">> @@ 228 :> <<"cpx", "zero_page">> @@
    229 :> <<"sbc", "zero_page">> @@ 230 :> <<"inc", "zero_page">> @@ 232 :> <<"inx", "implicit">> @@
    233 :> <<"sbc", "immediate">> @@ 234 :> <<"nop", "implicit">> @@ 236 :> <<"cpx", "absolute">> @@
    237 :> <<"sbc", "absolute">> @@ 238 :> <<"inc", "absolute">> @@ 240 :> <<"beq", "implicit">> @@
    241 :> <<"sbc", "indirect_y">> @@ 245 :> <<"sbc", "zero_page_x">> @@ 246 :> <<"inc", "zero_page_x">> @@
    248 :> <<"sed", "implicit">> @@ 249 :> <<"sbc", "absolute_y">> @@ 253 :> <<"sbc", "absolute_x">> @@
    254 :> <<"inc", "absolute_x">>

\* the address resolver of an instruction, run on m
resolve(m, mode) ==
    CASE mode = "implicit" -> m
      [] mode = "absolute" -> absolute(m)
      [] mode = "absolute_x" -> absolute_x(m)
      [] mode = "absolute_y" -> absolute_y(m)
      [] mode = "accumulator" -> accumulator(m)
      [] mode = "immediate" -> immediate(m)
      [] mode = "indirect" -> indirect(m)
      [] mode = "indirect_x" -> indirect_x(m)
      [] mode = "indirect_y" -> indirect_y(m)
      [] mode = "zero_page" -> zero_page(m)
      [] mode = "zero_page_x" -> zero_page_x(m)
      [] mode = "zero_page_y" -> zero_page_y(m)

\* the operator of an instruction, run on what its resolver left
operate(r, op, address) ==
    IF r.err # NoErr THEN r
    ELSE CASE op = "adc" -> adc(r, address) [] op = "aNd" -> aNd(r, address)
           [] op = "asl" -> asl(r, address) [] op = "bcc" -> bcc(r)
           [] op = "bcs" -> bcs(r) [] op = "beq" -> beq(r)
           [] op = "bit" -> bit(r, address) [] op = "bmi" -> bmi(r)
           [] op = "bne" -> bne(r) [] op = "bpl" -> bpl(r)
           [] op = "brk" -> brk(r) [] op = "bvc" -> bvc(r)
           [] op = "bvs" -> bvs(r) [] op = "clc" -> clc(r)
           [] op = "cld" -> cld(r) [] op = "cli" -> cli(r)
           [] op = "clv" -> clv(r) [] op = "cmp" -> cmp(r, address)
           [] op = "cpx" -> cpx(r, address) [] op = "cpy" -> cpy(r, address)
           [] op = "dec" -> dec(r, address) [] op = "dex" -> dex(r)
           [] op = "dey" -> dey(r) [] op = "eor" -> eor(r, address)
           [] op = "inc" -> inc(r, address) [] op = "inx" -> inx(r)
           [] op = "iny" -> iny(r) [] op = "jmp" -> jmp(r, address)
           [] op = "jsr" -> jsr(r, address) [] op = "lda" -> lda(r, address)
           [] op = "ldx" -> ldx(r, address) [] op = "ldy" -> ldy(r, address)
           [] op = "lsr" -> lsr(r, address) [] op = "nop" -> nop(r)
           [] op = "ora" -> ora(r, address) [] op = "pha" -> pha(r)
           [] op = "php" -> php(r) [] op = "pla" -> pla(r)
           [] op = "plp" -> plp(r) [] op = "rol" -> rol(r, address)
           [] op = "ror" -> ror(r, address) [] op = "rti" -> rti(r)
           [] op = "rts" -> rts(r) [] op = "sbc" -> sbc(r, address)
           [] op = "sec" -> sec(r) [] op = "sed" -> sed(r)
           [] op = "sei" -> sei(r) [] op = "sta" -> sta(r, address)
           [] op = "stx" -> stx(r, address) [] op = "sty" -> sty(r, address)
           [] op = "tax" -> tax(r) [] op = "tay" -> tay(r)
           [] op = "tsx" -> tsx(r) [] op = "txa" -> txa(r)
           [] op = "txs" -> txs(r) [] op = "tya" -> tya(r)

\* an instruction of the opcodes dictionary, run as instruction[0](self, instruction[1](self))
run_instruction(r, op) == operate(r, op, r.val)

\* a dispatch that raises on an unknown opcode without halting the CPU
execute_no_halt(m, opcode) ==
    IF m.err # NoErr THEN m
    ELSE IF opcode \notin DOMAIN opcodes THEN Raise(m, "opcode")
    ELSE run_instruction(resolve(m, opcodes[opcode][2]), opcodes[opcode][1])

\* lines 200-214 of step: look the opcode up and run the instruction
execute(m, opcode) ==
    IF m.err # NoErr THEN m
    ELSE IF opcode \notin DOMAIN opcodes
    THEN Raise([m EXCEPT !.cpu.halted = TRUE], "opcode")
    ELSE run_instruction(resolve(m, opcodes[opcode][2]), opcodes[opcode][1])

Range(list) == {list[k] : k \in 1..Len(list)}

\* an interrupt check that leaves the slot set
take_interrupt_keeps_slot(m) ==
    IF m.bus.interrupt = "RES" THEN reset(m)
    ELSE IF m.bus.interrupt = "HLT" THEN [m EXCEPT !.cpu.halted = TRUE]
    ELSE Raise(m, "interrupt")

\* the interrupt check of step, lines 170-179
take_interrupt(m) ==
    LET m1 == IF m.bus.interrupt = "RES" THEN reset(m)
              ELSE IF m.bus.interrupt = "HLT" THEN [m EXCEPT !.cpu.halted = TRUE]
              ELSE Raise(m, "interrupt")
    IN  OnOk(m1, [m1 EXCEPT !.bus.interrupt = "None"])

\* a breakpoint check with no memo: every arrival traps
traps_always(m) == m.cpu.pc \in Range(m.cpu.breakpoints)

\* the breakpoint check of step, line 182-184: does this step trap?
traps(m) ==
    /\ m.cpu.pc \in Range(m.cpu.breakpoints)
    /\ (m.cpu.last_break = None \/ m.cpu.pc # m.cpu.last_break)

\* lines 195-214 of step: fetch the opcode, advance PC, execute
fetch_execute(m) ==
    LET m1 == read(m, m.cpu.pc)
        m2 == inc_pc(m1)
    IN  execute(m2, m1.val)

\* passing a breakpoint without clearing the memo
pass_breakpoint_keeps_memo(m) == m

\* lines 188-190 of step: a breakpoint that trapped last time is passed once
pass_breakpoint(m) ==
    IF m.cpu.pc \in Range(m.cpu.breakpoints)
    THEN [m EXCEPT !.cpu.last_break = None]
    ELSE m

\* a step that looks at breakpoints before interrupts
step_breakpoint_first(m) ==
    IF m.cpu.halted THEN Raise(m, "halted")
    ELSE IF traps(m) THEN [m EXCEPT !.cpu.halted = TRUE, !.cpu.last_break = m.cpu.pc]
    ELSE IF m.bus.interrupt # "None" THEN take_interrupt(m)
    ELSE fetch_execute(pass_breakpoint(m))

\* a step that does not look at halted
step_ignores_halted(m) ==
    IF m.bus.interrupt # "None" THEN take_interrupt(m)
    ELSE IF traps(m) THEN [m EXCEPT !.cpu.halted = TRUE, !.cpu.last_break = m.cpu.pc]
    ELSE fetch_execute(pass_breakpoint(m))

step(m) ==
    IF m.cpu.halted THEN Raise(m, "halted")
    ELSE IF m.bus.interrupt # "None" THEN take_interrupt(m)
    ELSE IF traps(m) THEN [m EXCEPT !.cpu.halted = TRUE, !.cpu.last_break = m.cpu.pc]
    ELSE fetch_execute(pass_breakpoint(m))

\* which way a call of step goes, by the same conditions
step_path(m) ==
    IF m.cpu.halted THEN "halted"
    ELSE IF m.bus.interrupt # "None" THEN m.bus.interrupt
    ELSE IF traps(m) THEN "break"
    ELSE IF m.cpu.pc \in Range(m.cpu.breakpoints) THEN "resume"
    ELSE "exec"

\* a set_breakpoint that adds the address whether it is there or not
set_breakpoint_appends(m, address0) ==
    Return([m EXCEPT !.cpu.breakpoints = Append(m.cpu.breakpoints, address0 % 65536)], TRUE)

set_breakpoint(m, address0) ==
    LET address == address0 % 65536
        bp == m.cpu.breakpoints
        k == CHOOSE j \in 1..Len(bp) : bp[j] = address /\ \A h \in 1..(j - 1) : bp[h] # address
    IN  IF address \in Range(bp)
        THEN Return([m EXCEPT !.cpu.breakpoints =
                        SubSeq(bp, 1, k - 1) \o SubSeq(bp, k + 1, Len(bp))], FALSE)
        ELSE Return([m EXCEPT !.cpu.breakpoints = Append(bp, address)], TRUE)

clear_breakpoints(m) ==
    Return([m EXCEPT !.cpu.breakpoints = <<>>], Len(m.cpu.breakpoints))

----------------------------------------------------------------------------
(* The state after construction: SystemBus() and CPU(bus) *)

\* The machine the methods work on, and the state it leaves behind
M == [cpu |-> cpu, bus |-> bus, tty |-> tty, screen |-> screen,
      err |-> NoErr, val |-> 0]

\* CPU.__init__
CPU_init(registers) ==
    [a |-> registers.a, x |-> registers.x, y |-> registers.y,
     pc |-> registers.pc, s |-> registers.s,
     c |-> registers.c, z |-> registers.z, i |-> registers.i, d |-> registers.d,
     b |-> registers.b, v |-> registers.v, n |-> registers.n,
     halted |-> TRUE, breakpoints |-> <<>>, last_break |-> None]

\* Bus.__init__ and SystemBus.__init__, after the ROM images are loaded
SystemBus_init(image) ==
    [mem |-> image, throw_memory_errors |-> TRUE, interrupt |-> "None",
     kbd |-> 0, dsp |-> 0, stdscr |-> FALSE]

\* no call yet; resumed is the address last executed on resume from a trap
\* and not trapped at since, retrap says that this call trapped there;
\* address and val are the argument and the return value of a call that has them
NoCall(registers) ==
    [op |-> "none", path |-> "none", err |-> NoErr, before |-> CPU_init(registers),
     resumed |-> None, retrap |-> FALSE, address |-> None, val |-> None]

\* A monitor ROM in the style of WozMon's keyboard loop, with the reset
\* vector at $FF00 and the BRK vector at $0000:
\*   FF00  LDA $D011 ; FF03  BPL $FF00 ; FF05  LDA $D010 ; FF08  JMP $FF00
MonitorRom ==
    65280 :> 173 @@ 65281 :> 17 @@ 65282 :> 208 @@ 65283 :> 16 @@ 65284 :> 251 @@
    65285 :> 173 @@ 65286 :> 16 @@ 65287 :> 208 @@ 65288 :> 76 @@ 65290 :> 255 @@
    65533 :> 255

\* RAM as deposited before the run:
\*   0000  JMP $0200 ; 0200  LDA #$42 ; 0202  JMP $0200
LoopRam ==
    0 :> 76 @@ 2 :> 2 @@ 512 :> 169 @@ 513 :> 66 @@ 514 :> 76 @@ 516 :> 2

Init ==
    /\ cpu = CPU_init(initialize_registers)
    /\ bus = SystemBus_init(MonitorRom @@ LoopRam)
    /\ tty = <<>>
    /\ screen = <<>>
    /\ term = FALSE
    /\ last = NoCall(initialize_registers)

----------------------------------------------------------------------------
(* The calls *)

\* what a call leaves behind
Leaves(m) ==
    /\ cpu' = m.cpu
    /\ bus' = m.bus
    /\ tty' = m.tty
    /\ screen' = m.screen

Called(op, path, m) ==
    [op |-> op, path |-> path, err |-> m.err, before |-> cpu,
     resumed |-> IF path = "resume" /\ m.err = NoErr THEN cpu.pc
                 ELSE IF path = "break" /\ cpu.pc = last.resumed THEN None
                 ELSE last.resumed,
     retrap |-> path = "break" /\ cpu.pc = last.resumed,
     address |-> None,
     val |-> IF op \in {"set_breakpoint", "clear_breakpoints", "read"} /\ m.err = NoErr
             THEN m.val ELSE None]

\* cpu.step()
Step ==
    \E m \in {step(M)} :
        /\ Leaves(m)
        /\ last' = Called("step", step_path(M), m)
        /\ UNCHANGED term

\* cpu.reset(), as run() calls it
Reset ==
    \E m \in {reset(M)} :
        /\ Leaves(m)
        /\ last' = Called("reset", "reset", m)
        /\ UNCHANGED term

\* bounds of the inputs
MaxKeys == 1
Keys == {18, 5, 65}
PCs == {512, 65280}
BreakAddrs == {512}

\* handle_start / handle_step up to the first turn of _loop: the optional
\* PC, cpu.halted = False, the curses session, bus.stdscr = stdscr
handle_start(p) ==
    /\ ~term
    /\ cpu' = [cpu EXCEPT !.halted = FALSE, !.pc = IF p = None THEN @ ELSE p % 65536]
    /\ bus' = [bus EXCEPT !.stdscr = TRUE]
    /\ term' = TRUE
    /\ last' = IF p = None THEN last ELSE Called("pc", "none", M)
    /\ UNCHANGED <<tty, screen>>

\* the RESET command: bus.interrupt = 'RES', then handle_start
handle_reset ==
    /\ ~term
    /\ cpu' = [cpu EXCEPT !.halted = FALSE]
    /\ bus' = [bus EXCEPT !.stdscr = TRUE, !.interrupt = "RES"]
    /\ term' = TRUE
    /\ UNCHANGED <<tty, screen, last>>

\* wrapper() returns: _loop ended (halted, step limit) or an error unwound
end_run ==
    /\ term
    /\ term' = FALSE
    /\ UNCHANGED <<cpu, bus, tty, screen, last>>

\* handle_pc with an address
handle_pc(p) ==
    /\ ~term
    /\ cpu' = [cpu EXCEPT !.pc = p % 65536]
    /\ last' = Called("pc", "none", M)
    /\ UNCHANGED <<bus, tty, screen, term>>

\* handle_breakpoints with one address
handle_breakpoints(address) ==
    /\ ~term
    /\ Leaves(set_breakpoint(M, address))
    /\ last' = [Called("set_breakpoint", "none", set_breakpoint(M, address))
                   EXCEPT !.address = address]
    /\ UNCHANGED term

\* the CLEAR command
handle_clear ==
    /\ ~term
    /\ Leaves(clear_breakpoints(M))
    /\ last' = Called("clear_breakpoints", "none", clear_breakpoints(M))
    /\ UNCHANGED term

\* the user types a key into the terminal of the running session
TypeKey(k) ==
    /\ term
    /\ Len(tty) < MaxKeys
    /\ tty' = Append(tty, k)
    /\ UNCHANGED <<cpu, bus, screen, term, last>>

Next ==
    \/ Step
    \/ Reset
    \/ \E p \in PCs \cup {None} : handle_start(p)
    \/ handle_reset
    \/ end_run
    \/ \E p \in PCs : handle_pc(p)
    \/ \E address \in BreakAddrs : handle_breakpoints(address)
    \/ handle_clear
    \/ \E k \in Keys : TypeKey(k)

Spec == Init /\ [][Next]_vars

----------------------------------------------------------------------------
(* Runs of single instructions: the CPU with registers as randomize_registers
   may leave them, RAM as deposited, inside a started run *)

\* the state once handle_start has cleared halted and _loop has installed
\* the screen on the bus
Started(registers, image) ==
    /\ cpu = [CPU_init(registers) EXCEPT !.halted = FALSE]
    /\ bus = [SystemBus_init(image) EXCEPT !.stdscr = TRUE]
    /\ tty = <<>>
    /\ screen = <<>>
    /\ term = TRUE
    /\ last = NoCall(registers)

\* A ROM whose reset and BRK vectors both lead to $FF00, which holds a byte
\* that is no opcode ($02): whatever runs into BRK halts two steps later
HaltRom == 65280 :> 2 @@ 65533 :> 255 @@ 65535 :> 255

\* register files to run from
SomeRegisters ==
    { [initialize_registers EXCEPT !.pc = 512, !.a = 18, !.x = 52, !.y = 86,
                                   !.s = 253, !.c = 1, !.v = 1],
      [initialize_registers EXCEPT !.pc = 512, !.a = 129, !.x = 255, !.y = 1,
                                   !.s = 0, !.n = 1, !.d = 1, !.z = 1, !.b = 1] }

\* every byte as the opcode at $0200, followed by the operand bytes $10 $03
InitOpcode ==
    \E opcode \in Byte, registers \in SomeRegisters :
        Started(registers, HaltRom @@ Poke(513 :> 16 @@ 514 :> 3, 512, opcode))

SpecOpcode == InitOpcode /\ [][Step]_vars

\* JMP ($pppp) at $0200 for a pointer p, with the target's low byte at p, a
\* high byte at each of the two cells it could come from
Pointers == {768, 1023, 4351, 255, 1022, 32767, 1024, 511}
TargetBytes == {0, 52, 120, 255}

InitJmp ==
    \E p \in Pointers, lo \in TargetBytes, hi \in TargetBytes, registers \in SomeRegisters :
        Started(registers,
                HaltRom @@ Poke(Poke(Poke(512 :> 108 @@ 513 :> (p % 256) @@ 514 :> (p \div 256),
                                          p, lo),
                                     IF p % 256 = 255 THEN p + 1 ELSE p - (p % 256), 170),
                                IF p % 256 = 255 THEN p - 255 ELSE p + 1, hi))

SpecJmp == InitJmp /\ [][Step]_vars

\* PHA ; PLA at $0200 for every A and every S
InitStack ==
    \E a \in Byte, sp \in Byte :
        Started([initialize_registers EXCEPT !.pc = 512, !.a = a, !.s = sp],
                HaltRom @@ (512 :> 72 @@ 513 :> 104 @@ 514 :> 2))

SpecStack == InitStack /\ [][Step]_vars

\* every combination of the seven flags, as randomize_registers draws them
AllFlags ==
    [n : {0, 1}, v : {0, 1}, b : {0, 1}, d : {0, 1}, i : {0, 1}, z : {0, 1}, c : {0, 1}]

WithFlags(registers, f) ==
    [registers EXCEPT !.n = f.n, !.v = f.v, !.b = f.b, !.d = f.d,
                      !.i = f.i, !.z = f.z, !.c = f.c]

\* A ROM whose BRK vector leads to an RTI at $FF00
RtiRom == 65280 :> 64 @@ 65281 :> 2 @@ 65533 :> 255 @@ 65535 :> 255

\* the programs that push and pull the status byte, with the stack pointer
\* sp they start from: [pc, image]
StatusPrograms(sp) ==
    \* PHP ; PLP at $0200 and across a page end
    { [pc |-> a, image |-> RtiRom @@ (a :> 8 @@ (a + 1) :> 40 @@ (a + 2) :> 2)] :
        a \in {512, 767} }
    \* PLP alone, pulling a byte left on the stack
    \cup { [pc |-> 512,
            image |-> RtiRom @@ Poke(512 :> 40 @@ 513 :> 2,
                                     stack_location + ((sp + 1) % 256), byte)] :
             byte \in {0, 48, 207, 255} }
    \* BRK (and its padding byte) at $0200 and across a page end, RTI at $FF00
    \cup { [pc |-> a, image |-> RtiRom @@ (a + 2) :> 2] : a \in {512, 767} }
    \* BRK in the last cell of memory: vector $0010 holds an RTI, $0001 stops
    \cup { [pc |-> 65535, image |-> 1 :> 2 @@ 16 :> 64 @@ 65534 :> 16] }

InitStatus ==
    \E f \in AllFlags, sp \in {0, 1, 2, 128, 255} :
        \E program \in StatusPrograms(sp) :
            Started(WithFlags([initialize_registers EXCEPT
                                   !.pc = program.pc, !.a = 18, !.x = 52,
                                   !.y = 86, !.s = sp], f),
                    program.image)

SpecStatus == InitStatus /\ [][Step]_vars

\* JSR $0400 at address a, RTS at $0400, and a byte that stops the run where
\* the RTS returns to; a ranges over page ends, the stack page and the top of
\* memory, S over every value
InitCall ==
    \E a \in {512, 765, 766, 254, 496, 65533, 65534, 65535}, sp \in Byte :
        Started([initialize_registers EXCEPT !.pc = a, !.a = 18, !.x = 52,
                                             !.y = 86, !.s = sp, !.c = 1, !.n = 1],
                Poke(Poke(Poke(Poke(HaltRom @@ 1024 :> 96,
                                    a, 32),
                               (a + 1) % 65536, 0),
                          (a + 2) % 65536, 4),
                     (a + 3) % 65536, 2))

SpecCall == InitCall /\ [][Step]_vars

\* a two-byte instruction deposited at address a, followed by a byte that
\* stops the run, started with the given registers
TwoByte(a, opcode, byte, registers) ==
    Started([registers EXCEPT !.pc = a],
            Poke(Poke(Poke(HaltRom, a, opcode), (a + 1) % 65536, byte),
                 (a + 2) % 65536, 2))

\* each of the eight branches with every displacement, from addresses where
\* the target stays in the page, leaves it, and wraps around either end of memory
InitBranch ==
    \E a \in {512, 0, 32766, 65520}, opcode \in {16, 48, 80, 112, 144, 176, 208, 240},
       displacement \in Byte, registers \in SomeRegisters :
        TwoByte(a, opcode, displacement, registers)

SpecBranch == InitBranch /\ [][Step]_vars

\* ADC #M and SBC #M with D clear, for every A, every M and both carries
InitBinary ==
    \E opcode \in {105, 233}, a \in Byte, value \in Byte, c \in {0, 1} :
        TwoByte(512, opcode, value,
                [initialize_registers EXCEPT !.a = a, !.c = c, !.x = 52, !.y = 86,
                                             !.v = 1, !.z = 1])

SpecBinary == InitBinary /\ [][Step]_vars

\* ADC #M and SBC #M with D set, for every pair of bytes whose nibbles are
\* decimal digits and both carries
InitDecimal ==
    \E opcode \in {105, 233}, c \in {0, 1} :
        \E ah \in 0..9, al \in 0..9, mh \in 0..9, ml \in 0..9 :
            TwoByte(512, opcode, 16 * mh + ml,
                    [initialize_registers EXCEPT !.a = 16 * ah + al, !.c = c, !.d = 1,
                                                 !.x = 52, !.y = 86])

SpecDecimal == InitDecimal /\ [][Step]_vars

\* CMP #M, CPX #M and CPY #M for every value of the compared register and
\* every M; the other two registers hold $12
InitCompare ==
    \E register \in {"a", "x", "y"}, value \in Byte, byte \in Byte :
        TwoByte(512,
                CASE register = "a" -> 201 [] register = "x" -> 224 [] register = "y" -> 192,
                byte,
                [[initialize_registers EXCEPT !.a = 18, !.x = 18, !.y = 18,
                                              !.v = 1, !.i = 1, !.b = 1, !.z = 1]
                    EXCEPT ![register] = value])

SpecCompare == InitCompare /\ [][Step]_vars

\* ASL, LSR, ROL and ROR on the accumulator and on the zero-page cell $10,
\* for every value shifted and both carries; in memory mode A holds $5A
InitShift ==
    \E opcode \in {10, 74, 42, 106, 6, 70, 38, 102}, value \in Byte, c \in {0, 1} :
        IF opcode \in {10, 74, 42, 106}
        THEN Started([initialize_registers EXCEPT !.pc = 512, !.a = value, !.c = c,
                                                  !.v = 1, !.z = 1],
                     Poke(Poke(HaltRom, 512, opcode), 513, 2))
        ELSE Started([initialize_registers EXCEPT !.pc = 512, !.a = 90, !.c = c,
                                                  !.v = 1, !.z = 1],
                     Poke(Poke(Poke(Poke(HaltRom, 512, opcode), 513, 16), 514, 2),
                          16, value))

SpecShift == InitShift /\ [][Step]_vars

----------------------------------------------------------------------------
(* The bus on its own: reads and writes as the CPU's instructions and the
   EXAMINE and DEPOSIT commands make them, the TOGGLE command, keys typed *)

\* how many characters the display is followed for
MaxScreen == 1

\* bus.read(address)
bus_read(address) ==
    \E m \in {read(M, address)} :
        /\ Leaves(m)
        /\ last' = [Called("read", "none", m) EXCEPT !.address = address]
        /\ UNCHANGED term

\* bus.write(address, value)
bus_write(address, value) ==
    /\ Len(screen) < MaxScreen
    /\ \E m \in {write(M, address, value)} :
        /\ Leaves(m)
        /\ last' = [Called("write", "none", m) EXCEPT !.address = address]
        /\ UNCHANGED term

\* the TOGGLE command
handle_toggle ==
    /\ ~term
    /\ bus' = [bus EXCEPT !.throw_memory_errors = ~@]
    /\ UNCHANGED <<cpu, tty, screen, term, last>>

\* memory and display: reads of RAM $0200 (and $10200, the same cell), of
\* unused $8000, of the four I/O cells and of ROM $FF00; writes of $162, $8D
\* and $87 to them; TOGGLE; a run started and ended; the key 'a' typed
NextMemory ==
    \/ \E address \in {512, 66048, 32768, KBD, KBDCR, DSP, DSPCR, 65280} :
          bus_read(address)
    \/ \E address \in {512, 32768, KBD, KBDCR, DSP, DSPCR, 65280},
          value \in {354, 141, 135, 66} :
          bus_write(address, value)
    \/ handle_toggle
    \/ handle_start(None)
    \/ end_run
    \/ TypeKey(97)

SpecMemory == Init /\ [][NextMemory]_vars

\* keyboard: reads of $D010, $D011 and $D012 and writes to $D010 and $D012,
\* with the keys Ctrl-R, Ctrl-E, 'a', LF, DEL, 'A' and curses.KEY_DOWN typed
\* into a run that is started and ended
NextKeyboard ==
    \/ \E address \in {KBD, KBDCR} : bus_read(address)
    \/ Step
    \/ handle_start(None)
    \/ end_run
    \/ \E k \in {18, 5, 97, 10, 127, 65, 258} : TypeKey(k)

SpecKeyboard == Init /\ [][NextKeyboard]_vars

\* One stack instruction at $0200 (PHA, PHP, JSR $FF00, BRK, PLA, PLP, RTS,
\* RTI) for every S, over a filled page 1 whose return addresses lead into
\* the unused $9xxx; or the keyboard read LDA $D011 ; LDX $D010 ; TXS ; PHA
InitStackOps ==
    LET page == [k \in 256..511 |-> 144 + (k % 7)] IN
    \/ \E opcode \in {72, 8, 32, 0, 104, 40, 96, 64}, sp \in Byte :
           Started([initialize_registers EXCEPT !.pc = 512, !.a = 165, !.s = sp],
                   HaltRom @@ page @@ (512 :> opcode @@ 514 :> 255))
    \/ Started([initialize_registers EXCEPT !.pc = 512, !.a = 165],
               HaltRom @@ page @@
               (512 :> 173 @@ 513 :> 17 @@ 514 :> 208 @@ 515 :> 174 @@ 516 :> 16 @@
                517 :> 208 @@ 518 :> 154 @@ 519 :> 72 @@ 520 :> 2))

NextStackOps ==
    \/ Step
    \/ \E k \in {65, 258} : TypeKey(k)

SpecStackOps == InitStackOps /\ [][NextStackOps]_vars

\* The BREAK and CLEAR commands at the prompt, for addresses as parse_hex
\* returns them: in range, above $FFFF (66048 = $10200) and negative
NextBreak ==
    \/ \E address \in {512, 768, 65280, 66048, -1} : handle_breakpoints(address)
    \/ handle_clear

SpecBreak == Init /\ [][NextBreak]_vars

\* LDX #$03 ; DEX ; BNE $0202 ; BRK at $0200, started with some A, X, Y and Z
InitLoop ==
    \E a \in {0, 66, 255}, x \in {0, 3, 255}, y \in {0, 7, 128}, z \in {0, 1} :
        Started([initialize_registers EXCEPT !.pc = 512, !.a = a, !.x = x, !.y = y, !.z = z],
                HaltRom @@ (512 :> 162 @@ 513 :> 3 @@ 514 :> 202 @@ 515 :> 208 @@ 516 :> 253))

\* _loop calls cpu.step() again for as long as the CPU is not halted: weak
\* fairness of the step, with its enabling condition written out (a halted
\* CPU ends the loop)
SpecLoop == InitLoop /\ [][Step]_vars /\ ([]<>cpu.halted \/ []<><<Step>>_vars)

\* One indexed instruction at $1000, followed by a byte that stops the run:
\*   STA zp,X ($95) and STX zp,Y ($96) for every operand and index;
\*   the eight (indirect,X) opcodes and STA (indirect),Y ($91) for every
\*   operand, over a zero page of pointers into $0303-$0707 (the pair at
\*   $40 pointing at $FFF0) and data in the cells they point at;
\*   STA abs,X ($9D) and STA abs,Y ($99) from three bases for every index
InitIndexed ==
    LET pointers == [k \in 0..255 |-> IF k = 64 THEN 240 ELSE IF k = 65 THEN 255
                                      ELSE 3 + (k % 5)]
        data == [k \in {256 * h + l : h \in 3..7, l \in 3..7} |->
                    128 + 16 * (k \div 256) + (k % 256)]
    IN  \/ \E opcode \in {149, 150}, byte \in Byte, index \in Byte :
               TwoByte(4096, opcode, byte,
                       [initialize_registers EXCEPT
                           !.a = 90,
                           !.x = IF opcode = 149 THEN index ELSE 165,
                           !.y = IF opcode = 149 THEN 165 ELSE index])
        \/ \E opcode \in {1, 33, 65, 97, 129, 161, 193, 225, 145}, byte \in Byte,
              index \in {0, 1, 2, 16, 127, 128, 254, 255} :
               Started([initialize_registers EXCEPT
                           !.pc = 4096, !.a = 90,
                           !.x = IF opcode = 145 THEN 165 ELSE index,
                           !.y = IF opcode = 145 THEN index ELSE 165],
                       Poke(HaltRom @@ pointers @@ data @@ (4096 :> opcode @@ 4098 :> 2),
                            4097, byte))
        \/ \E opcode \in {157, 153}, base \in {768, 1023, 65520}, index \in Byte :
               Started([initialize_registers EXCEPT
                           !.pc = 4096, !.a = 90,
                           !.x = IF opcode = 157 THEN index ELSE 165,
                           !.y = IF opcode = 157 THEN 165 ELSE index],
                       Poke(Poke(HaltRom @@ (4096 :> opcode @@ 4099 :> 2),
                                 4097, base % 256), 4098, base \div 256))

SpecIndexed == InitIndexed /\ [][Step]_vars

----------------------------------------------------------------------------
(* What the calls are claimed to do *)

\* the little-endian word at a vector
VectorAt(vector) == Peek(bus.mem, vector) + 256 * Peek(bus.mem, vector + 1)

Registers == {"a", "x", "y", "s"}
Flags == {"n", "v", "b", "d", "i", "z", "c"}

\* the call touched nothing outside the CPU object
BusUntouched == bus' = bus /\ tty' = tty /\ screen' = screen

\* C1: reset sets I = 1 and PC to the word at $FFFC; A, X, Y, S, the flags
\* N, V, B, D, Z, C, halted, the breakpoints, the interrupt slot and memory
\* keep their values.
C1_ResetFrame ==
    [][Reset =>
        /\ cpu'.i = 1
        /\ cpu'.pc = VectorAt(reset_vector)
        /\ \A f \in Registers \cup (Flags \ {"i"}) \cup {"halted", "breakpoints"} :
               cpu'[f] = cpu[f]
        /\ bus'.interrupt = bus.interrupt
        /\ bus'.mem = bus.mem]_vars

\* a reset after the program ran from $0200 with I clear and a breakpoint set
C1_Witness ==
    /\ last.op = "reset"
    /\ last.before.i = 0 /\ cpu.i = 1
    /\ last.before.pc = 514 /\ cpu.pc = 65280
    /\ cpu.a = 66
    /\ cpu.breakpoints # <<>>

\* C2: a step of a non-halted CPU with RES pending resets (PC from $FFFC,
\* I = 1), empties the slot and returns with no instruction fetched or
\* executed, also when PC is a breakpoint that would trap.
C2_ResStep ==
    [][(~cpu.halted /\ bus.interrupt = "RES" /\ Step) =>
        /\ cpu' = [cpu EXCEPT !.pc = VectorAt(reset_vector), !.i = 1]
        /\ bus' = [bus EXCEPT !.interrupt = "None"]
        /\ tty' = tty /\ screen' = screen
        /\ last'.err = NoErr]_vars

\* RES was taken at a breakpoint that would otherwise have trapped
C2_Witness ==
    /\ last.op = "step" /\ last.path = "RES"
    /\ last.before.pc \in Range(last.before.breakpoints)
    /\ last.before.last_break # last.before.pc
    /\ last.before.pc # cpu.pc
    /\ ~cpu.halted /\ bus.interrupt = "None"

\* the step M would make if the key at the head of the input buffer were k
StepWithKey(k) == step([M EXCEPT !.tty = <<k>> \o Tail(tty)])

\* C3: a key that raises RES or HLT while an instruction polls $D011 does
\* not change what that instruction does (registers, flags, PC, memory are
\* as with an ordinary key), and the step after it takes the interrupt
\* before any fetch: nothing is read from the bus in between.
C3_InterruptAtBoundary ==
    [][Step =>
        /\ (bus.interrupt = "None" /\ bus'.interrupt # "None") =>
              /\ cpu' = StepWithKey(65).cpu
              /\ bus'.mem = StepWithKey(65).bus.mem
              /\ last'.err = StepWithKey(65).err
              /\ tty' = Tail(tty)
        /\ (~cpu.halted /\ bus.interrupt \in {"RES", "HLT"}) =>
              /\ last'.path = bus.interrupt
              /\ bus' = [bus EXCEPT !.interrupt = "None"]
              /\ tty' = tty
              /\ cpu'.pc \in {cpu.pc, VectorAt(reset_vector)}]_vars

\* Ctrl-R was polled by the LDA $D011 at $FF00, the LDA completed (A = $80,
\* PC = $FF03), and the next step took the reset
C3_Witness ==
    /\ last.op = "step" /\ last.path = "RES"
    /\ bus.kbd = 146
    /\ last.before.pc = 65283 /\ last.before.a = 128 /\ last.before.n = 1
    /\ cpu.pc = 65280

\* C4: a step of a non-halted CPU with HLT pending sets halted, empties the
\* slot and changes nothing else: PC, registers, flags, the breakpoint memo
\* and memory keep their values.
C4_HltStep ==
    [][(~cpu.halted /\ bus.interrupt = "HLT" /\ Step) =>
        /\ cpu' = [cpu EXCEPT !.halted = TRUE]
        /\ bus' = [bus EXCEPT !.interrupt = "None"]
        /\ tty' = tty /\ screen' = screen
        /\ last'.err = NoErr]_vars

C4_Witness ==
    /\ last.op = "step" /\ last.path = "HLT"
    /\ cpu.halted /\ ~last.before.halted
    /\ bus.interrupt = "None"
    /\ bus.kbd = 133

\* C5: a step of a halted CPU fails with a simulator error and changes
\* nothing; a freshly constructed CPU is halted.
C5_HaltedStep ==
    [][(cpu.halted /\ Step) =>
        /\ last'.err = "halted"
        /\ cpu' = cpu
        /\ BusUntouched]_vars

\* the step was tried on the CPU as constructed
C5_Witness ==
    /\ last.op = "step" /\ last.err = "halted"
    /\ cpu = CPU_init(initialize_registers)
    /\ last.before = cpu

\* C6 as stated: wherever no interrupt is pending and PC is a breakpoint,
\* the first step halts and executes nothing.
C6_Original ==
    [][(~cpu.halted /\ bus.interrupt = "None"
        /\ cpu.pc \in Range(cpu.breakpoints) /\ Step) =>
        /\ cpu'.halted
        /\ cpu'.pc = cpu.pc]_vars

\* the step M would make with no breakpoint set
PlainStep == step([M EXCEPT !.cpu.breakpoints = <<>>])

\* C6, amended: where no interrupt is pending, PC is a breakpoint and the
\* breakpoint memo is not this PC, the first step halts and executes nothing
\* (only halted and the memo change), and after the driver has cleared
\* halted the second step executes the instruction at PC, as a step with no
\* breakpoint would.
C6_TrapThenResume ==
    [][Step =>
        /\ (~cpu.halted /\ bus.interrupt = "None"
            /\ cpu.pc \in Range(cpu.breakpoints) /\ cpu.last_break # cpu.pc) =>
              /\ cpu' = [cpu EXCEPT !.halted = TRUE, !.last_break = cpu.pc]
              /\ BusUntouched
              /\ last'.err = NoErr
        /\ (last.op = "step" /\ last.path = "break" /\ bus.interrupt = "None"
            /\ cpu = [last.before EXCEPT !.halted = FALSE, !.last_break = cpu.pc]) =>
              /\ last'.path = "resume"
              /\ cpu' = [PlainStep.cpu EXCEPT !.breakpoints = cpu.breakpoints,
                                              !.last_break = None]
              /\ bus' = PlainStep.bus
              /\ tty' = PlainStep.tty]_vars

\* the LDA #$42 at breakpoint $0200 ran on the second step
C6_Witness ==
    /\ last.op = "step" /\ last.path = "resume" /\ last.err = NoErr
    /\ last.before.pc = 512 /\ last.before.last_break = 512
    /\ last.before.a = 0
    /\ cpu.a = 66 /\ cpu.pc = 514

\* C7: once the CPU has trapped at a breakpoint and executed its instruction
\* on resume, the next step that begins at that address with the breakpoint
\* still set and no interrupt pending halts again and executes nothing.
C7_ResumeOnce ==
    [][(bus.interrupt = "None" /\ last.resumed = cpu.pc
        /\ cpu.pc \in Range(cpu.breakpoints) /\ Step) =>
        /\ cpu'.halted
        /\ cpu' = [cpu EXCEPT !.halted = TRUE,
                              !.last_break = IF cpu.halted THEN @ ELSE cpu.pc]
        /\ BusUntouched]_vars

\* the CPU came round the loop to $0200 after resuming there, and trapped
C7_Witness ==
    /\ last.op = "step" /\ last.path = "break" /\ last.retrap
    /\ last.before.pc = 512 /\ last.before.a = 66
    /\ last.before.last_break = None
    /\ cpu.halted /\ cpu.last_break = 512

\* the opcode bytes the 6502 documents: 151 of the 256
Legal6502 ==
    {0, 1, 5, 6, 8, 9, 10, 13, 14, 16, 17, 21, 22, 24, 25, 29, 30,
     32, 33, 36, 37, 38, 40, 41, 42, 44, 45, 46, 48, 49, 53, 54, 56, 57, 61, 62,
     64, 65, 69, 70, 72, 73, 74, 76, 77, 78, 80, 81, 85, 86, 88, 89, 93, 94,
     96, 97, 101, 102, 104, 105, 106, 108, 109, 110, 112, 113, 117, 118, 120, 121, 125, 126,
     129, 132, 133, 134, 136, 138, 140, 141, 142, 144, 145, 148, 149, 150, 152, 153, 154, 157,
     160, 161, 162, 164, 165, 166, 168, 169, 170, 172, 173, 174,
     176, 177, 180, 181, 182, 184, 185, 186, 188, 189, 190,
     192, 193, 196, 197, 198, 200, 201, 202, 204, 205, 206, 208, 209, 213, 214, 216, 217, 221, 222,
     224, 225, 228, 229, 230, 232, 233, 234, 236, 237, 238, 240, 241, 245, 246, 248, 249, 253, 254}

\* this step gets as far as fetching an opcode from a plain memory cell
Fetches ==
    /\ ~cpu.halted /\ bus.interrupt = "None" /\ ~traps(M)
    /\ is_readable(cpu.pc) /\ cpu.pc \notin {KBD, KBDCR, DSP}

\* C8: the dispatch table has exactly the 151 legal opcodes; a step that
\* fetches any other byte sets halted and fails with 'unrecognized opcode',
\* with PC one past the byte and registers, flags and memory as they were.
C8_UnknownOpcode ==
    /\ Cardinality(Legal6502) = 151
    /\ DOMAIN opcodes = Legal6502
    /\ [][(Fetches /\ Step) =>
            IF Peek(bus.mem, cpu.pc) \in Legal6502
            THEN last'.err # "opcode"
            ELSE /\ last'.err = "opcode"
                 /\ cpu' = [cpu EXCEPT !.halted = TRUE, !.pc = (cpu.pc + 1) % 65536]
                 /\ BusUntouched]_vars

\* the byte $FF at $0200 halted the CPU at $0201 with its registers kept
C8_Witness ==
    /\ last.op = "step" /\ last.err = "opcode"
    /\ Peek(bus.mem, 512) = 255
    /\ last.before.pc = 512 /\ cpu.pc = 513
    /\ cpu.halted /\ cpu.a = 129 /\ cpu.s = 0

\* this step fetches and runs the given opcode byte
Runs(opcode) == Fetches /\ Peek(bus.mem, cpu.pc) = opcode

\* the operand word of the instruction at PC
OperandWord == Peek(bus.mem, cpu.pc + 1) + 256 * Peek(bus.mem, cpu.pc + 2)

\* C9: JMP ($6C) through pointer p takes the target's low byte from p and
\* its high byte from p+1, or from p-$FF when the low byte of p is $FF; PC
\* becomes high*256+low and nothing else in the CPU changes.
C9_JmpIndirect ==
    [][(Runs(108) /\ Step) =>
        LET p == OperandWord
            low == Peek(bus.mem, p)
            high == Peek(bus.mem, IF p % 256 = 255 THEN p - 255 ELSE p + 1)
        IN  /\ cpu' = [cpu EXCEPT !.pc = high * 256 + low]
            /\ BusUntouched
            /\ last'.err = NoErr]_vars

\* JMP ($03FF) took $78 from $03FF and $34 from $0300, not from $0400
C9_Witness ==
    /\ last.op = "step" /\ last.before.pc = 512 /\ last.err = NoErr
    /\ Peek(bus.mem, 512) = 108 /\ Peek(bus.mem, 513) = 255 /\ Peek(bus.mem, 514) = 3
    /\ Peek(bus.mem, 1023) = 120 /\ Peek(bus.mem, 768) = 52 /\ Peek(bus.mem, 1024) = 170
    /\ cpu.pc = 13432

\* C10: PHA followed at once by PLA leaves A and S as they were before the
\* PHA, for every A and S, the pointer wrapping inside page 1.
C10_PhaPla ==
    [][(last.op = "step" /\ last.err = NoErr /\ last.path = "exec"
        /\ Peek(bus.mem, last.before.pc) = 72
        /\ Runs(104) /\ Step) =>
        /\ cpu'.a = last.before.a
        /\ cpu'.s = last.before.s
        /\ last'.err = NoErr]_vars

\* with S = $00 the PHA wrote $0100 and left S = $FF; the PLA brought both back
C10_Witness ==
    /\ last.op = "step" /\ last.err = NoErr
    /\ last.before.pc = 513 /\ cpu.pc = 514
    /\ last.before.s = 255 /\ cpu.s = 0
    /\ cpu.a = 128 /\ Peek(bus.mem, 256) = 128

\* the step before this one fetched and ran the given opcode byte
LastRan(opcode) ==
    /\ last.op = "step" /\ last.err = NoErr /\ last.path \in {"exec", "resume"}
    /\ Peek(bus.mem, last.before.pc) = opcode

\* the status byte as PHP and BRK push it: bits 5 and 4 set, the rest N V D I Z C
PushedStatus ==
    128 * cpu.n + 64 * cpu.v + 32 + 16 + 8 * cpu.d + 4 * cpu.i + 2 * cpu.z + cpu.c

\* C11: PHP pushes the status byte with bits 5 and 4 set and bits 7,6,3,2,1,0
\* equal to N,V,D,I,Z,C; PHP followed at once by PLP leaves N, V, D, Z, C and
\* S unchanged, for every flag combination.
C11_PhpPlp ==
    /\ [][(Runs(8) /\ Step) =>
            /\ last'.err = NoErr
            /\ bus'.mem = Poke(bus.mem, stack_location + cpu.s, PushedStatus)
            /\ cpu' = [cpu EXCEPT !.pc = (cpu.pc + 1) % 65536,
                                  !.s = (cpu.s - 1) % 256]]_vars
    /\ [][(LastRan(8) /\ Runs(40) /\ Step) =>
            /\ last'.err = NoErr
            /\ \A f \in {"n", "v", "d", "z", "c", "s"} : cpu'[f] = last.before[f]]_vars

\* PHP with N, D, Z, C set and S = $00 pushed $BB to $0100; PLP brought S back
C11_Witness ==
    /\ LastRan(40) /\ last.before.pc = 513 /\ cpu.pc = 514
    /\ Peek(bus.mem, 256) = 187
    /\ last.before.s = 255 /\ cpu.s = 0
    /\ cpu.n = 1 /\ cpu.v = 0 /\ cpu.d = 1 /\ cpu.i = 0 /\ cpu.z = 1 /\ cpu.c = 1

\* C12: PLP and RTI ignore bits 5 and 4 of the byte they pull: the B flag
\* after PLP or RTI equals the B flag before it, whatever byte is on the stack.
C12_PullKeepsB ==
    [][((Runs(40) \/ Runs(64)) /\ Step) => cpu'.b = cpu.b]_vars

\* C14: BRK at address a pushes the high and low byte of a+2 and then the
\* status byte with bits 5 and 4 set, sets I, loads PC from $FFFE/$FFFF, and
\* lowers S by 3 modulo 256; A, X, Y, N, V, D, Z, C are unchanged.
C14_Brk ==
    [][(Runs(0) /\ Step) =>
        LET return == (cpu.pc + 2) % 65536
        IN  /\ last'.err = NoErr
            /\ bus'.mem = Poke(Poke(Poke(bus.mem,
                                         stack_location + cpu.s, return \div 256),
                                    stack_location + ((cpu.s - 1) % 256), return % 256),
                               stack_location + ((cpu.s - 2) % 256), PushedStatus)
            /\ cpu' = [cpu EXCEPT !.i = 1, !.pc = VectorAt(nmi_brk_vector),
                                  !.s = (cpu.s - 3) % 256]]_vars

\* BRK at $0200 with S = $01 and I clear: $02, $02 and the status byte went to
\* $0101, $0100 and $01FF, S is $FE, I is set and PC is the BRK vector's $FF00
C14_Witness ==
    /\ LastRan(0) /\ last.before.pc = 512 /\ last.before.s = 1 /\ last.before.i = 0
    /\ last.before.n = 1 /\ last.before.c = 1 /\ last.before.v = 0
    /\ last.before.d = 0 /\ last.before.z = 0
    /\ Peek(bus.mem, 257) = 2 /\ Peek(bus.mem, 256) = 2 /\ Peek(bus.mem, 511) = 177
    /\ cpu.s = 254 /\ cpu.i = 1 /\ cpu.pc = 65280 /\ cpu.n = 1 /\ cpu.c = 1

\* C13: JSR at address a pushes the high byte then the low byte of a+2 and
\* jumps to the operand address; an RTS run with the stack as the JSR left it
\* sets PC to a+3 mod 65536 and S to its value before the JSR, for every a
\* and S, PC and S wrapping around.
C13_JsrRts ==
    /\ [][(Runs(32) /\ Step) =>
            LET return == (cpu.pc + 2) % 65536
                target == Peek(bus.mem, (cpu.pc + 1) % 65536)
                          + 256 * Peek(bus.mem, (cpu.pc + 2) % 65536)
            IN  /\ last'.err = NoErr
                /\ bus'.mem = Poke(Poke(bus.mem, stack_location + cpu.s, return \div 256),
                                   stack_location + ((cpu.s - 1) % 256), return % 256)
                /\ cpu' = [cpu EXCEPT !.pc = target, !.s = (cpu.s - 2) % 256]]_vars
    /\ [][(LastRan(32) /\ Runs(96) /\ Step) =>
            /\ last'.err = NoErr
            /\ cpu' = [cpu EXCEPT !.pc = (last.before.pc + 3) % 65536,
                                  !.s = last.before.s]
            /\ BusUntouched]_vars

\* JSR in the last cell of memory with S = $00: $00 went to $0100, $01 to
\* $01FF, and the RTS at $0400 came back to $0002 with S = $00
C13_Witness ==
    /\ LastRan(96) /\ last.before.pc = 1024 /\ last.before.s = 254
    /\ Peek(bus.mem, 65535) = 32
    /\ Peek(bus.mem, 256) = 0 /\ Peek(bus.mem, 511) = 1
    /\ cpu.pc = 2 /\ cpu.s = 0

\* the condition each branch opcode tests
Taken(opcode) ==
    CASE opcode = 16 -> cpu.n = 0    [] opcode = 48 -> cpu.n = 1
      [] opcode = 80 -> cpu.v = 0    [] opcode = 112 -> cpu.v = 1
      [] opcode = 144 -> cpu.c = 0   [] opcode = 176 -> cpu.c = 1
      [] opcode = 208 -> cpu.z = 0   [] opcode = 240 -> cpu.z = 1

\* C15: a conditional branch at address a with displacement byte d sets PC to
\* (a + 2 + d) mod 65536 for d < $80 and (a + 2 + d - 256) mod 65536 for
\* d >= $80 when its condition holds, to (a + 2) mod 65536 otherwise; no
\* flag, register or memory cell changes in either case.
C15_Branch ==
    [][(Fetches /\ Peek(bus.mem, cpu.pc) \in {16, 48, 80, 112, 144, 176, 208, 240}
        /\ Step) =>
        LET a == cpu.pc
            d == Peek(bus.mem, (a + 1) % 65536)
        IN  /\ last'.err = NoErr
            /\ BusUntouched
            /\ cpu' = [cpu EXCEPT !.pc =
                          IF Taken(Peek(bus.mem, a))
                          THEN (IF d < 128 THEN (a + 2 + d) % 65536
                                ELSE (a + 2 + d - 256) % 65536)
                          ELSE (a + 2) % 65536]]_vars

\* BMI with displacement $80 at $0000 and N set went back across the start
\* of memory to $FF82
C15_Witness ==
    /\ LastRan(48) /\ last.before.pc = 0 /\ last.before.n = 1
    /\ Peek(bus.mem, 1) = 128
    /\ cpu.pc = 65410

\* the operand byte of the two-byte instruction at PC
OperandByte == Peek(bus.mem, (cpu.pc + 1) % 65536)

\* C16: ADC with D = 0, for every A, M and C: with r = A + M + C, A' is
\* r mod 256, C' is 1 iff r > 255, V' is 1 iff ((A xor r) and (M xor r) and
\* $80) is non-zero, Z' is 1 iff A' = 0, and N' is bit 7 of A'.
C16_AdcBinary ==
    [][(Runs(105) /\ cpu.d = 0 /\ Step) =>
        LET r == cpu.a + OperandByte + cpu.c
        IN  /\ last'.err = NoErr
            /\ cpu'.a = r % 256
            /\ cpu'.c = 1 <=> r > 255
            /\ cpu'.v = 1 <=>
                   BitAnd(BitAnd(BitXor(cpu.a, r), BitXor(OperandByte, r)), 128) # 0
            /\ cpu'.z = 1 <=> cpu'.a = 0
            /\ cpu'.n = Bit(cpu'.a, 7)
            /\ \A f \in {"c", "v", "z", "n"} : cpu'[f] \in {0, 1}]_vars

\* $7F + $01 with C = 0 gave A = $80 with V = 1, N = 1, C = 0
C16_Witness ==
    /\ LastRan(105) /\ last.before.d = 0 /\ last.before.c = 0
    /\ last.before.a = 127 /\ Peek(bus.mem, 513) = 1
    /\ cpu.a = 128 /\ cpu.v = 1 /\ cpu.n = 1 /\ cpu.c = 0 /\ cpu.z = 0

\* C19: SBC with D = 0, for every A, M and C: with r = A - M + C - 1, A' is
\* r mod 256, C' is 1 iff r >= 0, V' is 1 iff bit 7 of A differs from bit 7
\* of r and bit 7 of M equals bit 7 of r, and N and Z are set from A'.
C19_SbcBinary ==
    [][(Runs(233) /\ cpu.d = 0 /\ Step) =>
        LET r == cpu.a - OperandByte + cpu.c - 1
        IN  /\ last'.err = NoErr
            /\ cpu'.a = r % 256
            /\ cpu'.c = 1 <=> r >= 0
            /\ cpu'.v = 1 <=> (/\ Bit(cpu.a, 7) # Bit(r % 256, 7)
                               /\ Bit(OperandByte, 7) = Bit(r % 256, 7))
            /\ cpu'.z = 1 <=> cpu'.a = 0
            /\ cpu'.n = Bit(cpu'.a, 7)
            /\ \A f \in {"c", "v", "z", "n"} : cpu'[f] \in {0, 1}]_vars

\* $00 - $01 with C = 1 gave A = $FF with C = 0 and N = 1
C19_Witness ==
    /\ LastRan(233) /\ last.before.d = 0 /\ last.before.c = 1
    /\ last.before.a = 0 /\ Peek(bus.mem, 513) = 1
    /\ cpu.a = 255 /\ cpu.c = 0 /\ cpu.n = 1 /\ cpu.z = 0

\* the number a BCD byte stands for, and the BCD byte of a number below 100
BcdValue(byte) == 10 * (byte \div 16) + (byte % 16)
BcdByte(number) == 16 * (number \div 10) + (number % 10)
IsBcd(byte) == byte \div 16 <= 9 /\ byte % 16 <= 9

\* C17: ADC with D = 1, for valid BCD operands A and M and either carry: with
\* r the decimal sum of A, M and C, A' is the BCD byte of r mod 100 and C' is
\* 1 iff r >= 100.
C17_AdcDecimal ==
    [][(Runs(105) /\ cpu.d = 1 /\ IsBcd(cpu.a) /\ IsBcd(OperandByte) /\ Step) =>
        LET r == BcdValue(cpu.a) + BcdValue(OperandByte) + cpu.c
        IN  /\ last'.err = NoErr
            /\ cpu'.a = BcdByte(r % 100)
            /\ cpu'.c = IF r >= 100 THEN 1 ELSE 0]_vars

\* $99 + $01 with D = 1 and C = 0 gave A = $00 and C = 1
C17_Witness ==
    /\ LastRan(105) /\ last.before.d = 1 /\ last.before.c = 0
    /\ last.before.a = 153 /\ Peek(bus.mem, 513) = 1
    /\ cpu.a = 0 /\ cpu.c = 1

\* C18: in decimal mode ADC and SBC set N and Z from the BCD-encoded result
\* stored in A: afterwards N is bit 7 of the new A and Z is 1 iff the new A
\* is $00.
C18_DecimalNZ ==
    [][((Runs(105) \/ Runs(233)) /\ cpu.d = 1 /\ Step) =>
        /\ cpu'.n = Bit(cpu'.a, 7)
        /\ cpu'.z = 1 <=> cpu'.a = 0]_vars

\* the register each compare opcode reads
Compared(opcode) ==
    CASE opcode = 201 -> cpu.a [] opcode = 224 -> cpu.x [] opcode = 192 -> cpu.y

\* C20: CMP, CPX and CPY, for every register value R and operand M: C' is 1
\* iff R >= M, Z' is 1 iff R = M, N' is bit 7 of (R - M) mod 256; V, D, I, B,
\* the registers and memory are unchanged.
C20_Compare ==
    [][(Fetches /\ Peek(bus.mem, cpu.pc) \in {201, 224, 192} /\ Step) =>
        LET R == Compared(Peek(bus.mem, cpu.pc))
            operand_value == OperandByte
        IN  /\ last'.err = NoErr
            /\ BusUntouched
            /\ cpu' = [cpu EXCEPT !.pc = (cpu.pc + 2) % 65536,
                                  !.c = IF R >= operand_value THEN 1 ELSE 0,
                                  !.z = IF R = operand_value THEN 1 ELSE 0,
                                  !.n = Bit((R - operand_value) % 256, 7)]]_vars

\* A = $40, CMP #$40 set Z and C and cleared N, with V, I and B still set
C20_Witness ==
    /\ LastRan(201) /\ last.before.a = 64 /\ Peek(bus.mem, 513) = 64
    /\ last.before.z = 1 /\ last.before.c = 0
    /\ cpu.a = 64 /\ cpu.z = 1 /\ cpu.c = 1 /\ cpu.n = 0
    /\ cpu.v = 1 /\ cpu.i = 1 /\ cpu.b = 1

\* C21: ASL, LSR, ROL and ROR on a value v (A in accumulator mode, the cell at
\* the effective address otherwise): C' is the bit shifted out, the vacated bit
\* is 0 for ASL/LSR and the prior C for ROL/ROR, the 8-bit result goes back to
\* A or to the same cell, N and Z are set from it, and in memory mode A is
\* unchanged.
C21_Shift ==
    [][(Fetches /\ Peek(bus.mem, cpu.pc) \in {10, 74, 42, 106, 6, 70, 38, 102} /\ Step) =>
        LET opcode == Peek(bus.mem, cpu.pc)
            on_a == opcode \in {10, 74, 42, 106}
            left == opcode \in {10, 42, 6, 38}
            rotate == opcode \in {42, 106, 38, 102}
            v == IF on_a THEN cpu.a ELSE Peek(bus.mem, OperandByte)
            fill == IF rotate THEN cpu.c ELSE 0
            out == IF left THEN Bit(v, 7) ELSE Bit(v, 0)
            result == IF left THEN ((2 * v) % 256) + fill ELSE (v \div 2) + 128 * fill
        IN  /\ last'.err = NoErr
            /\ cpu' = [cpu EXCEPT !.pc = (cpu.pc + (IF on_a THEN 1 ELSE 2)) % 65536,
                                  !.c = out,
                                  !.n = Bit(result, 7),
                                  !.z = IF result = 0 THEN 1 ELSE 0,
                                  !.a = IF on_a THEN result ELSE @]
            /\ bus' = [bus EXCEPT !.mem = IF on_a THEN @ ELSE Poke(@, OperandByte, result)]
            /\ tty' = tty /\ screen' = screen]_vars

\* ROR of the cell $10 holding $01 with C set left $80 there, C = 1, N = 1, and A as it was
C21_Witness ==
    /\ LastRan(102) /\ last.before.pc = 512 /\ last.before.c = 1 /\ last.before.a = 90
    /\ Peek(bus.mem, 513) = 16 /\ Peek(bus.mem, 16) = 128
    /\ cpu.c = 1 /\ cpu.n = 1 /\ cpu.z = 0 /\ cpu.a = 90 /\ cpu.pc = 514

\* the four Apple 1 I/O cells, and the cells the memory map closes to reads
\* and to writes
IoCells == {53264, 53265, 53266, 53267}
Unreadable(address) == 32768 <= address /\ address <= 57343 /\ address \notin IoCells
Unwritable(address) == 32768 <= address /\ address <= 65535 /\ address \notin IoCells

\* C22: a read of an unreadable address fails with a simulator error when
\* strict memory errors are on and returns 0 when they are off; a write to an
\* unwritable address fails when they are on and is dropped when they are
\* off; in all four cases memory is unchanged, and no write through write()
\* changes a cell in $8000-$FFFF.
C22_Permissions ==
    /\ [][\A address \in {32768, 65280} :
            (Unreadable(address) /\ bus_read(address)) =>
                /\ bus' = bus
                /\ IF bus.throw_memory_errors THEN last'.err = "read"
                   ELSE last'.err = NoErr /\ last'.val = 0]_vars
    /\ [][\A address \in {32768, 65280}, value \in {354, 141, 135, 66} :
            (Unwritable(address) /\ bus_write(address, value)) =>
                /\ bus' = bus
                /\ last'.err = IF bus.throw_memory_errors THEN "write" ELSE NoErr]_vars
    /\ [][\A address \in DOMAIN bus.mem \cup DOMAIN bus'.mem :
            address >= 32768 => Peek(bus'.mem, address) = Peek(bus.mem, address)]_vars

\* a write to ROM $FF00 with strict errors off returned without an error and
\* the cell still holds its $AD
C22_Witness ==
    /\ last.op = "write" /\ last.address = 65280 /\ last.err = NoErr
    /\ ~bus.throw_memory_errors
    /\ Peek(bus.mem, 65280) = 173

\* C23: the four I/O cells $D010-$D013 are exempt from the non-readable and
\* non-writable marking of $8000-$DFFF: reading or writing any of them never
\* fails with a memory-access error, with strict memory errors on or off.
C23_IoExempt ==
    [][\A address \in IoCells :
            /\ bus_read(address) => last'.err = NoErr
            /\ \A value \in {354, 141, 135, 66} :
                   bus_write(address, value) => last'.err = NoErr]_vars

\* a read of $D011 would find a key: a terminal handle is on the bus and the
\* host's input buffer is not empty
KeyAvailable == bus.stdscr /\ tty # <<>>

\* C24: a read of $D010 returns the keyboard latch and sets it to 0 (so does
\* LDA $D010); the latch leaves 0 only by a read of $D011 that finds a host
\* key, so every read of $D010 in between returns 0; a read of $D011 that
\* finds no key returns 0 and leaves the latch, the interrupt slot and the
\* rest of the bus unchanged.
C24_KbdLatch ==
    [][/\ bus_read(KBD) => last'.val = bus.kbd /\ bus'.kbd = 0 /\ last'.err = NoErr
       /\ (Runs(173) /\ OperandWord = KBD /\ Step) => cpu'.a = bus.kbd /\ bus'.kbd = 0
       /\ (bus.kbd = 0 /\ bus'.kbd # 0) =>
              /\ KeyAvailable
              /\ tty' = Tail(tty)
              /\ bus'.kbd = BitOr(translate(Head(tty)), 128)
       /\ (bus_read(KBDCR) /\ ~KeyAvailable) =>
              last'.val = 0 /\ last'.err = NoErr /\ BusUntouched]_vars

\* a read of $D010 has returned the latched 'A' and left the latch at 0
C24_Witness ==
    /\ last.op = "read" /\ last.address = KBD /\ last.val = 193
    /\ bus.kbd = 0

\* C25: in every reachable state, for every keycode the terminal poll can
\* return, the keyboard latch is 0 or a single byte in $80..$FF, and a read
\* of $D010 returns a value in 0..255.
C25_LatchByte ==
    /\ bus.kbd = 0 \/ bus.kbd \in 128..255
    /\ (last.op = "read" /\ last.address = KBD /\ last.err = NoErr) => last.val \in 0..255

\* t(k) of the claim: 97..122 to k-32, 10 to 13, 127 to 95, others to themselves
KeyCode(k) ==
    IF k \in 97..122 THEN k - 32
    ELSE IF k = 10 THEN 13
    ELSE IF k = 127 THEN 95
    ELSE k

\* x OR $80
WithBit7(x) == IF (x \div 128) % 2 = 1 THEN x ELSE x + 128

\* the interrupt slot after key k was read
SlotAfter(k) == IF k = 18 THEN "RES" ELSE IF k = 5 THEN "HLT" ELSE bus.interrupt

\* C26: a read of $D011 with host key k available returns $80 (LDA $D011
\* loads $80) and latches t(k) OR $80; k = 18 sets the interrupt slot to RES,
\* k = 5 sets it to HLT, and no other key changes the slot.
C26_KeyRead ==
    [][/\ (bus_read(KBDCR) /\ KeyAvailable) =>
              /\ last'.val = 128 /\ last'.err = NoErr
              /\ bus'.kbd = WithBit7(KeyCode(Head(tty)))
              /\ bus'.interrupt = SlotAfter(Head(tty))
              /\ tty' = Tail(tty)
       /\ (Runs(173) /\ OperandWord = KBDCR /\ Step /\ KeyAvailable) =>
              /\ cpu'.a = 128
              /\ bus'.kbd = WithBit7(KeyCode(Head(tty)))
              /\ bus'.interrupt = SlotAfter(Head(tty))]_vars

\* a read of $D011 has found the delete key: $80 returned, underscore latched
C26_Witness ==
    /\ last.op = "read" /\ last.address = KBDCR /\ last.val = 128
    /\ bus.kbd = 223
    /\ bus.interrupt = "None"

\* c of the claim: v and $7F, reduced by 32 when above 95
DisplayCode(v) == IF v % 128 > 95 THEN (v % 128) - 32 ELSE v % 128

\* what a write of v to $D012 is claimed to put on the terminal
Emitted(v) ==
    IF DisplayCode(v) = 13 THEN <<10>>
    ELSE IF DisplayCode(v) \in 32..95 THEN <<DisplayCode(v)>>
    ELSE << >>

\* the values written to $D012
DisplayValues == {354, 141, 135, 66}

\* C27 as stated: a write of v to $D012 stores v mod 256 in the display
\* mirror and emits exactly one character when c is in 32..95 or c = 13 (LF
\* for 13, otherwise c) and nothing otherwise; it never changes the memory
\* array or the keyboard latch, and a read of $D012 returns 0 whatever the
\* mirror holds.
C27_DisplayAlways ==
    [][/\ \A v \in DisplayValues : bus_write(DSP, v) =>
              /\ last'.err = NoErr
              /\ bus'.dsp = v % 256
              /\ screen' = screen \o Emitted(v)
              /\ bus'.mem = bus.mem /\ bus'.kbd = bus.kbd
       /\ bus_read(DSP) => last'.val = 0 /\ last'.err = NoErr /\ BusUntouched]_vars

\* C27, amended: the character is emitted when a terminal handle is installed
\* on the bus; with no handle installed the write emits nothing. The mirror,
\* the memory array, the latch and the read of $D012 are as stated.
C27_Display ==
    [][/\ \A v \in DisplayValues : bus_write(DSP, v) =>
              /\ last'.err = NoErr
              /\ bus'.dsp = v % 256
              /\ screen' = IF bus.stdscr THEN screen \o Emitted(v) ELSE screen
              /\ bus'.mem = bus.mem /\ bus'.kbd = bus.kbd
       /\ bus_read(DSP) => last'.val = 0 /\ last'.err = NoErr /\ BusUntouched]_vars

\* $42 was written to $D012 with a key latched: mirror $42, 'B' on the terminal
C27_Witness ==
    /\ last.op = "write" /\ last.address = DSP /\ last.err = NoErr
    /\ bus.dsp = 66 /\ screen = <<66>>
    /\ bus.kbd = 193

\* the cell of page 1 that stack pointer sp selects, wrapping inside the page
StackCell(sp) == 256 + (sp % 256)

\* the cells a step changes
Changed ==
    {x \in (DOMAIN bus.mem) \cup (DOMAIN bus'.mem) : Peek(bus.mem, x) # Peek(bus'.mem, x)}

\* C28: every stack access by PHA, PHP, JSR, BRK, PLA, PLP, RTS, RTI is in
\* $0100-$01FF: a push writes $0100+S and then sets S to (S-1) mod 256, a
\* pull first sets S to (S+1) mod 256 and then reads $0100+S, wrapping
\* inside page 1.
C28_PageOne ==
    [][/\ (Runs(72) /\ Step) =>
              /\ bus'.mem = Poke(bus.mem, stack_location + cpu.s, cpu.a % 256)
              /\ stack_location + cpu.s \in 256..511
              /\ cpu'.s = (cpu.s - 1) % 256
       /\ (Runs(8) /\ Step) =>
              /\ bus'.mem = Poke(bus.mem, stack_location + cpu.s, PushedStatus)
              /\ stack_location + cpu.s \in 256..511
              /\ cpu'.s = (cpu.s - 1) % 256
       /\ (Runs(32) /\ Step) =>
              /\ Changed \subseteq {StackCell(cpu.s), StackCell(cpu.s - 1)}
              /\ stack_location + cpu.s \in 256..511
              /\ cpu'.s = (cpu.s - 2) % 256
       /\ (Runs(0) /\ Step) =>
              /\ Changed \subseteq {StackCell(cpu.s), StackCell(cpu.s - 1), StackCell(cpu.s - 2)}
              /\ stack_location + cpu.s \in 256..511
              /\ cpu'.s = (cpu.s - 3) % 256
       /\ (Runs(104) /\ Step) =>
              /\ cpu'.s = (cpu.s + 1) % 256
              /\ cpu'.a = Peek(bus.mem, StackCell(cpu.s + 1))
              /\ bus'.mem = bus.mem
       /\ (Runs(40) /\ Step) =>
              /\ cpu'.s = (cpu.s + 1) % 256
              /\ cpu'.c = Peek(bus.mem, StackCell(cpu.s + 1)) % 2
              /\ cpu'.n = Peek(bus.mem, StackCell(cpu.s + 1)) \div 128
              /\ bus'.mem = bus.mem
       /\ (Runs(96) /\ Step) =>
              /\ cpu'.s = (cpu.s + 2) % 256
              /\ cpu'.pc = (Peek(bus.mem, StackCell(cpu.s + 1))
                            + 256 * Peek(bus.mem, StackCell(cpu.s + 2)) + 1) % 65536
              /\ bus'.mem = bus.mem
       /\ (Runs(64) /\ Step) =>
              /\ cpu'.s = (cpu.s + 3) % 256
              /\ cpu'.c = Peek(bus.mem, StackCell(cpu.s + 1)) % 2
              /\ cpu'.pc = Peek(bus.mem, StackCell(cpu.s + 2))
                           + 256 * Peek(bus.mem, StackCell(cpu.s + 3))
              /\ bus'.mem = bus.mem]_vars

\* C29: set_breakpoint(a) toggles membership of a mod 65536: true and added
\* when absent, false and removed when present, no other member changed; the
\* collection never holds an address twice; clear_breakpoints empties it and
\* returns the number of addresses that were present.
C29_Breakpoints ==
    /\ [](Cardinality(Range(cpu.breakpoints)) = Len(cpu.breakpoints))
    /\ [][/\ \A address \in {512, 768, 65280, 66048, -1} :
                 (last'.op = "set_breakpoint" /\ handle_breakpoints(address)) =>
                 LET a == address % 65536
                     present == \E j \in 1..Len(cpu.breakpoints) : cpu.breakpoints[j] = a
                 IN  /\ last'.val = ~present
                     /\ Range(cpu'.breakpoints) =
                            IF present THEN Range(cpu.breakpoints) \ {a}
                            ELSE Range(cpu.breakpoints) \cup {a}
          /\ (last'.op = "clear_breakpoints" /\ handle_clear) =>
                 /\ cpu'.breakpoints = << >>
                 /\ last'.val = Cardinality(Range(cpu.breakpoints))]_vars

\* $0200 was removed from three breakpoints under its alias $10200
C29_Witness ==
    /\ last.op = "set_breakpoint" /\ last.address = 66048 /\ last.val = FALSE
    /\ last.before.breakpoints = <<768, 512, 65280>>
    /\ cpu.breakpoints = <<768, 65280>>

\* C30: the terminal handle is on the bus only for the duration of a run:
\* after a START or STEP run ends, by halt, step limit or error, the bus no
\* longer holds it, so in every state the bus holds a terminal handle only
\* while the terminal session is open.
C30_HandleScoped == bus.stdscr => term

\* C31: with A2 03 CA D0 FD 00 at $0200 and PC = $0200, no breakpoints and no
\* pending interrupt, repeated steps eventually reach the BRK at $0205, and
\* whenever PC is $0205 X is 0 and Z is 1: the DEX/BNE loop cannot run forever.
C31_LoopEnds ==
    /\ <>(cpu.pc = 517 /\ cpu.x = 0 /\ cpu.z = 1)
    /\ [](cpu.pc = 517 => cpu.x = 0 /\ cpu.z = 1)

\* the third BNE fell through to the BRK with X = 0 and Z = 1
C31_Witness ==
    /\ LastRan(208) /\ last.before.pc = 515 /\ last.before.x = 0
    /\ cpu.pc = 517 /\ cpu.x = 0 /\ cpu.z = 1 /\ ~cpu.halted

\* the address the zero-page pointer at p holds, its high byte from (p+1) mod 256
PointerAt(p) == Peek(bus.mem, p % 256) + 256 * Peek(bus.mem, (p + 1) % 256)

\* the machine after the opcode and n operand bytes were consumed and the
\* operator of the opcode at PC ran on effective address ea
Operated(n, ea) ==
    operate([M EXCEPT !.cpu.pc = (cpu.pc + 1 + n) % 65536],
            opcodes[Peek(bus.mem, cpu.pc)][1], ea)

\* C32: in the dispatch table the absolute-indirect resolver is paired only
\* with JMP ($6C); each of the (indirect,X) opcodes $01, $21, $41, $61, $81,
\* $A1, $C1, $E1 consumes exactly one operand byte and takes its effective
\* address from the zero-page pointer at (operand + X) mod 256.
C32_IndirectX ==
    [][\A opcode \in {1, 33, 65, 97, 129, 161, 193, 225} : (Runs(opcode) /\ Step) =>
            /\ opcodes[opcode][2] # "indirect"
            /\ \A other \in DOMAIN opcodes : opcodes[other][2] = "indirect" => other = 108
            /\ cpu' = Operated(1, PointerAt(OperandByte + cpu.x)).cpu
            /\ bus'.mem = Operated(1, PointerAt(OperandByte + cpu.x)).bus.mem
            /\ last'.err = Operated(1, PointerAt(OperandByte + cpu.x)).err]_vars

\* a store of value at effective address ea by an instruction with n operand
\* bytes: the cell is written and PC is n + 1 further, or the cell is not
\* writable and memory is as it was
Stores(n, ea, value) ==
    IF is_writeable(ea)
    THEN /\ last'.err = NoErr
         /\ bus'.mem = Poke(bus.mem, ea, value)
         /\ cpu' = [cpu EXCEPT !.pc = (cpu.pc + n + 1) % 65536]
    ELSE /\ last'.err = "write"
         /\ bus'.mem = bus.mem

\* C36: zero-page,X and zero-page,Y yield (operand + index) mod 256, always in
\* page zero; (indirect,X) and (indirect),Y read the pointer's high byte from
\* (pointer + 1) mod 256; absolute,X, absolute,Y and (indirect),Y add the
\* index modulo 65536; each mode advances PC by its number of operand bytes.
\* Shown by where STA and STX store.
C36_IndexedWrap ==
    [][/\ (Runs(149) /\ Step) =>
              /\ (OperandByte + cpu.x) % 256 \in 0..255
              /\ Stores(1, (OperandByte + cpu.x) % 256, cpu.a)
       /\ (Runs(150) /\ Step) =>
              /\ (OperandByte + cpu.y) % 256 \in 0..255
              /\ Stores(1, (OperandByte + cpu.y) % 256, cpu.x)
       /\ (Runs(129) /\ Step) =>
              Stores(1, PointerAt((OperandByte + cpu.x) % 256), cpu.a)
       /\ (Runs(145) /\ Step) =>
              Stores(1, (PointerAt(OperandByte) + cpu.y) % 65536, cpu.a)
       /\ (Runs(157) /\ Step) => Stores(2, (OperandWord + cpu.x) % 65536, cpu.a)
       /\ (Runs(153) /\ Step) => Stores(2, (OperandWord + cpu.y) % 65536, cpu.a)]_vars

\* STA ($FF,X) with X = 0 stored through the pointer whose low byte is at $FF
\* and whose high byte is at $00
C36_Witness ==
    /\ LastRan(129) /\ last.before.pc = 4096 /\ last.before.x = 0
    /\ Peek(bus.mem, 4097) = 255
    /\ Peek(bus.mem, 255) = 3 /\ Peek(bus.mem, 0) = 3 /\ Peek(bus.mem, 256) = 0
    /\ Peek(bus.mem, 771) = 90
    /\ cpu.pc = 4098

\* C33: a breakpoint is armed whenever it has not just fired: when the call
\* before began with PC somewhere else (the PC was brought to a by the
\* driver, by a reset or by an instruction), the step that begins with PC = a
\* on a breakpoint, with no pending interrupt, halts without executing the
\* instruction.
C33_Armed ==
    [][(/\ Step
        /\ ~cpu.halted /\ bus.interrupt = "None"
        /\ cpu.pc \in Range(cpu.breakpoints)
        /\ last.op # "none" /\ last.before.pc # cpu.pc) =>
            /\ cpu'.halted
            /\ [cpu' EXCEPT !.halted = FALSE, !.last_break = None]
                   = [cpu EXCEPT !.last_break = None]
            /\ BusUntouched]_vars

\* C34: a step that fails with a strict-memory access error (opcode fetch,
\* operand read or operand write on a forbidden address) preserves the CPU
\* state: PC, A, X, Y, S, every flag and all memory are as before the step.
C34_ErrorPreserves ==
    [][(Step /\ last'.err \in {"read", "write"}) =>
            /\ cpu'.pc = cpu.pc
            /\ cpu'.a = cpu.a /\ cpu'.x = cpu.x /\ cpu'.y = cpu.y /\ cpu'.s = cpu.s
            /\ cpu'.n = cpu.n /\ cpu'.v = cpu.v /\ cpu'.b = cpu.b /\ cpu'.d = cpu.d
            /\ cpu'.i = cpu.i /\ cpu'.z = cpu.z /\ cpu'.c = cpu.c
            /\ bus'.mem = bus.mem]_vars

\* C35: after any sequence of reset and step calls against the Apple 1 bus,
\* with any host key input, A, X, Y and S are in 0..255, PC is in 0..65535
\* and each of N, V, B, D, I, Z, C is 0 or 1.
C35_RegisterRanges ==
    /\ cpu.a \in Byte /\ cpu.x \in Byte /\ cpu.y \in Byte /\ cpu.s \in Byte
    /\ cpu.pc \in Word
    /\ \A f \in {cpu.n, cpu.v, cpu.b, cpu.d, cpu.i, cpu.z, cpu.c} : f \in {0, 1}

====
